---- MODULE Spec2Model ----
(***************************************************************************)
(* Model of the RMP graph-to-line parser (rmpParser / rmpPathCalculator).  *)
(*                                                                         *)
(* Numbers are fixed-point integers: a value v of the program is held as   *)
(* v * Unit, products and quotients rounded to the nearest.  NaN is a      *)
(* number of its own: every operation on it gives NaN and every comparison *)
(* with it is false.  Node positions are drawn from a 3 x 4 rectangle, on  *)
(* which every distance and every normalised direction is exact at this    *)
(* resolution.                                                             *)
(***************************************************************************)
EXTENDS Integers, Naturals, Sequences, FiniteSets, TLC

VARIABLES nodes,           \* data.graph.nodes  (sequence of node records)
          edges,           \* data.graph.edges  (sequence of edge records)
          worldId,         \* the worldId argument
          pc,              \* position inside parseRMPData
          linesByColor,    \* Map color -> edges, in insertion order
          groupIdx,        \* position of the for-of loop over linesByColor
          lines,           \* const lines: ParsedLine[]
          allStationsMap,  \* Map name -> ParsedStation, in insertion order
          lineIndex,       \* let lineIndex
          result,          \* the value returned by the last finished call
          prevResult,      \* the value returned by the call before it
          calls,           \* number of calls started on this input
          pathCall,        \* one call of a path builder: arguments and value
          snapCall,        \* one call of closestPointOnSegment: arguments and value
          ringCall,        \* one call of closestPointOnRings: arguments and values
          assist,          \* state of the AssistLineTools component
          control,         \* state of the ControlPointTools component
          toolCall,        \* the last operation made on a Mapping tool, and its value
          mirrorFetch,     \* one call of fetchWithMirror: position, mirrors contacted, events
          landmarkLayer,   \* state of the LandmarkLayer component and its running effects
          mapContainer,    \* state of the MapContainer component and its running loads
          measuring,       \* state of the MeasuringModule component
          beforeUndo       \* history: the point list before each undo still on the redo stack

vars == <<nodes, edges, worldId, pc, linesByColor, groupIdx, lines,
          allStationsMap, lineIndex, result, prevResult, calls, pathCall, snapCall,
          ringCall, assist, control, toolCall, mirrorFetch, landmarkLayer,
          mapContainer, measuring, beforeUndo>>

appVars == <<mirrorFetch, landmarkLayer, mapContainer, measuring, beforeUndo>>

toolVars == <<ringCall, assist, control, toolCall, appVars>>

(***************************************************************************)
(* Bounds                                                                  *)
(***************************************************************************)
MaxEdges == 3        \* longest edge list of the topology inputs
MaxAttrEdges == 2    \* longest edge list of the attribute inputs
MaxCalls == 2        \* calls of parseRMPData on one input

(***************************************************************************)
(* Number representation                                                   *)
(***************************************************************************)
Unit == 100

NULL == "<null>"

\* the value of arithmetic on undefined
NaN == 0 - 1000000000

\* n / d rounded to the nearest, d > 0
RoundDiv(n, d) ==
  IF n >= 0 THEN (2 * n + d) \div (2 * d) ELSE 0 - ((2 * (0 - n) + d) \div (2 * d))

Add(a, b) == IF a = NaN \/ b = NaN THEN NaN ELSE a + b

Sub(a, b) == IF a = NaN \/ b = NaN THEN NaN ELSE a - b

Neg(a) == IF a = NaN THEN NaN ELSE 0 - a

Mul(a, b) == IF a = NaN \/ b = NaN THEN NaN ELSE RoundDiv(a * b, Unit)

\* a / b; the quotient by 0 is not a finite number
Div(a, b) ==
  IF a = NaN \/ b = NaN \/ b = 0 THEN NaN
  ELSE IF b > 0 THEN RoundDiv(a * Unit, b) ELSE RoundDiv((0 - a) * Unit, 0 - b)

Gt(a, b) == a # NaN /\ b # NaN /\ a > b

Ge(a, b) == a # NaN /\ b # NaN /\ a >= b

\* Math.abs, Math.min
AbsN(a) == IF a = NaN THEN NaN ELSE IF a < 0 THEN 0 - a ELSE a

MinN(a, b) == IF a = NaN \/ b = NaN THEN NaN ELSE IF a < b THEN a ELSE b

\* Math.sign(a) || 1, as a plain integer
signOrOne(a) == IF a = NaN \/ a = 0 THEN 1 ELSE IF a > 0 THEN 1 ELSE 0 - 1

RECURSIVE SqrtIter(_, _)
SqrtIter(n, r) ==
  LET r2 == (r + n \div r) \div 2
  IN  IF r2 >= r THEN r ELSE SqrtIter(n, r2)

\* Math.sqrt on the square of a fixed-point magnitude
Sqrt(n) == IF n <= 0 THEN 0 ELSE SqrtIter(n, n)

\* Math.sqrt(dx * dx + dy * dy)
Hyp(dx, dy) == IF dx = NaN \/ dy = NaN THEN NaN ELSE Sqrt(dx * dx + dy * dy)

(***************************************************************************)
(* Coordinate configuration                                                *)
(***************************************************************************)
STATION_TYPES == {"bjsubway-int", "bjsubway-basic", "suzhourt-basic", "shmetro-int"}

WORLD_COORD_CONFIGS ==
  [zth   |-> [scale |-> Unit, offset |-> 5, multiplier |-> 10 * Unit],
   houtu |-> [scale |-> Unit, offset |-> 0, multiplier |-> 4 * Unit]]

DEFAULT_COORD_CONFIG == [scale |-> Unit, offset |-> 5, multiplier |-> 10 * Unit]

\* keys every object literal inherits: WORLD_COORD_CONFIGS[w] is then a function
\* object, which is truthy and has no scale, offset or multiplier
ObjectPrototypeKeys == {"constructor", "toString", "valueOf", "hasOwnProperty"}

\* WORLD_COORD_CONFIGS[worldId] || DEFAULT_COORD_CONFIG
coordConfigOf(w) ==
  IF w \in DOMAIN WORLD_COORD_CONFIGS THEN WORLD_COORD_CONFIGS[w]
  ELSE IF w \in ObjectPrototypeKeys
  THEN [scale |-> NaN, offset |-> NaN, multiplier |-> NaN]
  ELSE DEFAULT_COORD_CONFIG

rmpToGameCoord(x, y, config) ==
  [x |-> Mul(Add(Mul(x, config.scale), config.offset), config.multiplier),
   y |-> 64 * Unit,
   z |-> Mul(Add(Mul(y, config.scale), config.offset), config.multiplier)]

(***************************************************************************)
(* Node and edge accessors                                                 *)
(***************************************************************************)
getStationName(node) ==
  IF Len(node.names) > 0 THEN node.names[1] ELSE NULL

isStationNode(node) == node.type \in STATION_TYPES

isTransferStation(node) == node.type \in {"bjsubway-int", "shmetro-int"}

getEdgeColor(edge) ==
  IF Len(edge.color) >= 3 THEN edge.color[3] ELSE "#888888"

\* Map color -> badge name; a later badge of the same color replaces an earlier one
getLineBadges(ns) ==
  LET badgeIdx == {i \in 1..Len(ns) :
                     /\ ns[i].type = "bjsubway-text-line-badge"
                     /\ Len(ns[i].names) > 0}
      colorOf(i) == IF Len(ns[i].color) >= 3 THEN ns[i].color[3] ELSE "#888888"
      colors == {colorOf(i) : i \in badgeIdx}
      lastOf(c) == CHOOSE i \in badgeIdx :
                     /\ colorOf(i) = c
                     /\ \A j \in badgeIdx : colorOf(j) = c => j <= i
  IN  [c \in colors |-> ns[lastOf(c)].names[1]]

\* nodeMap: key -> node; a later node of the same key replaces an earlier one
nodeMapOf(ns) ==
  LET keys == {ns[i].key : i \in 1..Len(ns)}
      lastOf(k) == CHOOSE i \in 1..Len(ns) :
                     /\ ns[i].key = k
                     /\ \A j \in 1..Len(ns) : ns[j].key = k => j <= i
  IN  [k \in keys |-> ns[lastOf(k)]]

(***************************************************************************)
(* Grouping of the visible edges by color                                  *)
(***************************************************************************)
groupIndexOf(groups, c) ==
  IF \E i \in 1..Len(groups) : groups[i].color = c
  THEN CHOOSE i \in 1..Len(groups) : groups[i].color = c
  ELSE 0

\* variant: invisible edges are grouped like the others
addEdgeToGroups_keepHidden(groups, edge) ==
  LET c == getEdgeColor(edge)
      i == groupIndexOf(groups, c)
  IN  IF i = 0 THEN Append(groups, [color |-> c, edges |-> <<edge>>])
      ELSE [groups EXCEPT ![i].edges = Append(@, edge)]

addEdgeToGroups(groups, edge) ==
  IF ~edge.visible THEN groups
  ELSE LET c == getEdgeColor(edge)
           i == groupIndexOf(groups, c)
       IN  IF i = 0 THEN Append(groups, [color |-> c, edges |-> <<edge>>])
           ELSE [groups EXCEPT ![i].edges = Append(@, edge)]

RECURSIVE groupByColorFrom(_, _, _)
groupByColorFrom(es, i, groups) ==
  IF i > Len(es) THEN groups
  ELSE groupByColorFrom(es, i + 1, addEdgeToGroups(groups, es[i]))

groupByColor(es) == groupByColorFrom(es, 1, <<>>)

(***************************************************************************)
(* Adjacency and traversal                                                 *)
(***************************************************************************)
adjIndexOf(adj, k) ==
  IF \E i \in 1..Len(adj) : adj[i].node = k
  THEN CHOOSE i \in 1..Len(adj) : adj[i].node = k
  ELSE 0

adjEnsure(adj, k) ==
  IF adjIndexOf(adj, k) = 0 THEN Append(adj, [node |-> k, neighbors |-> <<>>])
  ELSE adj

seqHas(s, v) == \E i \in 1..Len(s) : s[i] = v

adjAdd(adj, k, n) ==
  LET i == adjIndexOf(adj, k)
  IN  IF seqHas(adj[i].neighbors, n) THEN adj
      ELSE [adj EXCEPT ![i].neighbors = Append(@, n)]

adjAddEdge(adj, edge) ==
  adjAdd(adjAdd(adjEnsure(adjEnsure(adj, edge.source), edge.target),
                edge.source, edge.target),
         edge.target, edge.source)

RECURSIVE adjFrom(_, _, _)
adjFrom(es, i, adj) ==
  IF i > Len(es) THEN adj ELSE adjFrom(es, i + 1, adjAddEdge(adj, es[i]))

\* positions of the edges that wrote the key `${a}->${b}` of edgeMap
edgeMapHits(es, a, b) ==
  {i \in 1..Len(es) :
     \/ es[i].source = a /\ es[i].target = b
     \/ es[i].target = a /\ es[i].source = b}

edgeMapHas(es, a, b) == edgeMapHits(es, a, b) # {}

\* edgeMap.get(`${a}->${b}`): the last edge written under that key
edgeMapGet(es, a, b) ==
  LET hits == edgeMapHits(es, a, b)
  IN  es[CHOOSE i \in hits : \A j \in hits : j <= i]

buildAdjacencyWithEdges(es) == adjFrom(es, 1, <<>>)

neighborsOf(adj, k) ==
  LET i == adjIndexOf(adj, k)
  IN  IF i = 0 THEN <<>> ELSE adj[i].neighbors

\* variant: the traversal always starts at the source of the first edge
startNodeOf_firstSource(es, adj) == es[1].source

startNodeOf(es, adj) ==
  LET ends == {i \in 1..Len(adj) : Len(adj[i].neighbors) = 1}
  IN  IF ends = {} THEN es[1].source
      ELSE adj[CHOOSE i \in ends : \A j \in ends : i <= j].node

RECURSIVE dfs(_, _, _, _, _)
RECURSIVE dfsNeighbors(_, _, _, _, _, _)

dfs(node, prevNode, st, adj, es) ==
  IF node \in st.visited THEN st
  ELSE LET st1 == [visited      |-> st.visited \cup {node},
                   orderedNodes |-> Append(st.orderedNodes, node),
                   orderedEdges |->
                     IF prevNode # NULL /\ edgeMapHas(es, prevNode, node)
                     THEN Append(st.orderedEdges, edgeMapGet(es, prevNode, node))
                     ELSE st.orderedEdges]
       IN  dfsNeighbors(node, neighborsOf(adj, node), 1, st1, adj, es)

\* variant: only the first unvisited neighbour is followed (no backtracking)
RECURSIVE dfsNeighbors_firstOnly(_, _, _, _, _, _)
dfsNeighbors_firstOnly(node, nbrs, i, st, adj, es) ==
  IF i > Len(nbrs) THEN st
  ELSE IF nbrs[i] \notin st.visited
       THEN dfs(nbrs[i], node, st, adj, es)
       ELSE dfsNeighbors_firstOnly(node, nbrs, i + 1, st, adj, es)

dfsNeighbors(node, nbrs, i, st, adj, es) ==
  IF i > Len(nbrs) THEN st
  ELSE LET st1 == IF nbrs[i] \notin st.visited
                  THEN dfs(nbrs[i], node, st, adj, es)
                  ELSE st
       IN  dfsNeighbors(node, nbrs, i + 1, st1, adj, es)

getOrderedStationsWithEdges(es) ==
  IF Len(es) = 0 THEN [orderedNodes |-> <<>>, orderedEdges |-> <<>>]
  ELSE LET adj == buildAdjacencyWithEdges(es)
           st  == dfs(startNodeOf(es, adj), NULL,
                      [visited |-> {}, orderedNodes |-> <<>>, orderedEdges |-> <<>>],
                      adj, es)
       IN  [orderedNodes |-> st.orderedNodes, orderedEdges |-> st.orderedEdges]

(***************************************************************************)
(* Path builders                                                           *)
(***************************************************************************)
normalize(v) ==
  LET len == Hyp(v.x, v.y)
  IN  IF Gt(len, 0) THEN [x |-> Div(v.x, len), y |-> Div(v.y, len)]
      ELSE [x |-> 0, y |-> 0]

perpendicular(v) == [x |-> Neg(v.y), y |-> v.x]

distance(p1, p2) == Hyp(Sub(p2.x, p1.x), Sub(p2.y, p1.y))

toGameCoord(p, config) ==
  [x |-> Mul(Add(Mul(p.x, config.scale), config.offset), config.multiplier),
   y |-> 64 * Unit,
   z |-> Mul(Add(Mul(p.y, config.scale), config.offset), config.multiplier)]

\* from + perpDir * offset
offsetPoint(p, perpDir, offset) ==
  [x |-> Add(p.x, Mul(perpDir.x, offset)), y |-> Add(p.y, Mul(perpDir.y, offset))]

lineSegment(a, b, coordConfig) ==
  [type |-> "line", points |-> <<toGameCoord(a, coordConfig), toGameCoord(b, coordConfig)>>]

quadraticSegment(a, c, b, coordConfig) ==
  [type |-> "quadratic",
   points |-> <<toGameCoord(a, coordConfig), toGameCoord(c, coordConfig),
                toGameCoord(b, coordConfig)>>]

\* if (len > 0.001) { segments.push(seg); totalLength += len * multiplier }
pushPiece(acc, len, seg, coordConfig) ==
  IF len # NaN /\ 1000 * len > Unit
  THEN [segments |-> Append(acc.segments, seg),
        length   |-> Add(acc.length, Mul(len, coordConfig.multiplier))]
  ELSE acc

\* the point of the curve at t = i / 10
bezierPoint(p0, p1, p2, i) ==
  LET mt == 10 - i
      at(a, b, c) == IF a = NaN \/ b = NaN \/ c = NaN THEN NaN
                     ELSE RoundDiv(mt * mt * a + 2 * mt * i * b + i * i * c, 100)
  IN  [x |-> at(p0.x, p1.x, p2.x), y |-> at(p0.y, p1.y, p2.y)]

RECURSIVE bezierChords(_, _, _, _, _, _)
bezierChords(p0, p1, p2, i, prev, length) ==
  IF i > 10 THEN length
  ELSE LET curr == bezierPoint(p0, p1, p2, i)
       IN  bezierChords(p0, p1, p2, i + 1, curr, Add(length, distance(prev, curr)))

quadraticBezierLength(p0, p1, p2) == bezierChords(p0, p1, p2, 1, p0, 0)

\* cornerStart and cornerEnd, at clampedFactor from the corner along v1 and v2
roundCornerAt(corner, v1, v2, clampedFactor) ==
  [cornerStart |-> offsetPoint(corner, v1, clampedFactor),
   cornerEnd   |-> offsetPoint(corner, v2, clampedFactor),
   control     |-> corner]

\* variant: the factor is used as given, whatever the legs' lengths
applyRoundCorner_unclamped(before, corner, after, factor) ==
  roundCornerAt(corner,
                normalize([x |-> Sub(before.x, corner.x), y |-> Sub(before.y, corner.y)]),
                normalize([x |-> Sub(after.x, corner.x), y |-> Sub(after.y, corner.y)]),
                factor)

applyRoundCorner(before, corner, after, factor) ==
  roundCornerAt(corner,
                normalize([x |-> Sub(before.x, corner.x), y |-> Sub(before.y, corner.y)]),
                normalize([x |-> Sub(after.x, corner.x), y |-> Sub(after.y, corner.y)]),
                MinN(factor, Mul(MinN(distance(corner, before), distance(corner, after)),
                                 Unit \div 2)))

\* const segments = [], let totalLength = 0
EmptyPath == [segments |-> <<>>, length |-> 0]

\* a straight piece from a to b, when longer than 0.001
pushLine(acc, a, b, coordConfig) ==
  pushPiece(acc, distance(a, b), lineSegment(a, b, coordConfig), coordConfig)

\* the curve of a rounded corner, when longer than 0.001
pushCurve(acc, round, coordConfig) ==
  pushPiece(acc, quadraticBezierLength(round.cornerStart, round.control, round.cornerEnd),
            quadraticSegment(round.cornerStart, round.control, round.cornerEnd, coordConfig),
            coordConfig)

\* perpendicular(normalize({x: dx, y: dy}))
perpDirOf(from, to) ==
  perpendicular(normalize([x |-> Sub(to.x, from.x), y |-> Sub(to.y, from.y)]))

\* variant: the dominant axis alone decides the bend
perpendicularCorner_ignoresStartFrom(p1, p2, startFrom, isHorizontalDominant) ==
  IF isHorizontalDominant
  THEN [x |-> p2.x, y |-> p1.y]
  ELSE [x |-> p1.x, y |-> p2.y]

perpendicularCorner(p1, p2, startFrom, isHorizontalDominant) ==
  IF (startFrom = "from") = isHorizontalDominant
  THEN [x |-> p2.x, y |-> p1.y]
  ELSE [x |-> p1.x, y |-> p2.y]

\* the three pieces of the L: line, rounded corner, line
perpendicularPieces(p1, round, p2, coordConfig) ==
  pushLine(pushCurve(pushLine(EmptyPath, p1, round.cornerStart, coordConfig),
                     round, coordConfig),
           round.cornerEnd, p2, coordConfig)

perpendicularFromEnds(p1, p2, isHorizontalDominant, config, coordConfig) ==
  perpendicularPieces(p1,
                      applyRoundCorner(p1,
                                       perpendicularCorner(p1, p2, config.startFrom,
                                                           isHorizontalDominant),
                                       p2, config.roundCornerFactor),
                      p2, coordConfig)

perpendicularAlong(from, to, perpDir, config, coordConfig) ==
  perpendicularFromEnds(offsetPoint(from, perpDir, config.offsetFrom),
                        offsetPoint(to, perpDir, config.offsetTo),
                        Ge(AbsN(Sub(to.x, from.x)), AbsN(Sub(to.y, from.y))),
                        config, coordConfig)

calculatePerpendicularPath(from, to, config, coordConfig) ==
  perpendicularAlong(from, to, perpDirOf(from, to), config, coordConfig)

\* (signX * diagonalLen, signY * diagonalLen)
diagonalStep(newDx, newDy) ==
  LET diagonalLen == MinN(AbsN(newDx), AbsN(newDy))
  IN  IF diagonalLen = NaN THEN [x |-> NaN, y |-> NaN]
      ELSE [x |-> signOrOne(newDx) * diagonalLen, y |-> signOrOne(newDy) * diagonalLen]

\* half is (newDx - signX * diagonalLen) / 2
diagonalCornersAt(p1, p2, step, half, startFrom) ==
  IF startFrom = "from"
  THEN [corner1 |-> [x |-> Add(p1.x, half), y |-> p1.y],
        corner2 |-> [x |-> Add(Add(p1.x, half), step.x), y |-> Add(p1.y, step.y)]]
  ELSE [corner1 |-> [x |-> Sub(Sub(p2.x, half), step.x), y |-> Sub(p2.y, step.y)],
        corner2 |-> [x |-> Sub(p2.x, half), y |-> p2.y]]

diagonalCorners(p1, p2, step, startFrom) ==
  diagonalCornersAt(p1, p2, step, Mul(Sub(Sub(p2.x, p1.x), step.x), Unit \div 2), startFrom)

\* the five pieces: line, rounded corner, oblique line, rounded corner, line
diagonalPieces(p1, round1, round2, p2, coordConfig) ==
  pushLine(pushCurve(pushLine(pushCurve(pushLine(EmptyPath, p1, round1.cornerStart,
                                                 coordConfig),
                                        round1, coordConfig),
                              round1.cornerEnd, round2.cornerStart, coordConfig),
                     round2, coordConfig),
           round2.cornerEnd, p2, coordConfig)

diagonalBetween(p1, p2, corners, factor, coordConfig) ==
  diagonalPieces(p1,
                 applyRoundCorner(p1, corners.corner1, corners.corner2, factor),
                 applyRoundCorner(corners.corner1, corners.corner2, p2, factor),
                 p2, coordConfig)

diagonalFromEnds(p1, p2, config, coordConfig) ==
  diagonalBetween(p1, p2,
                  diagonalCorners(p1, p2, diagonalStep(Sub(p2.x, p1.x), Sub(p2.y, p1.y)),
                                  config.startFrom),
                  config.roundCornerFactor, coordConfig)

diagonalAlong(from, to, perpDir, config, coordConfig) ==
  diagonalFromEnds(offsetPoint(from, perpDir, config.offsetFrom),
                   offsetPoint(to, perpDir, config.offsetTo),
                   config, coordConfig)

calculateDiagonalPath(from, to, config, coordConfig) ==
  diagonalAlong(from, to, perpDirOf(from, to), config, coordConfig)

\* variant: the length is left in diagram units
calculateSimplePath_unscaled(from, to, config, coordConfig) ==
  LET dir     == normalize([x |-> Sub(to.x, from.x), y |-> Sub(to.y, from.y)])
      perpDir == perpendicular(dir)
      p1 == offsetPoint(from, perpDir, config.offset)
      p2 == offsetPoint(to, perpDir, config.offset)
  IN  [segments |-> <<lineSegment(p1, p2, coordConfig)>>,
       length |-> distance(p1, p2)]

calculateSimplePath(from, to, config, coordConfig) ==
  LET dir     == normalize([x |-> Sub(to.x, from.x), y |-> Sub(to.y, from.y)])
      perpDir == perpendicular(dir)
      p1 == offsetPoint(from, perpDir, config.offset)
      p2 == offsetPoint(to, perpDir, config.offset)
  IN  [segments |-> <<lineSegment(p1, p2, coordConfig)>>,
       length |-> Mul(distance(p1, p2), coordConfig.multiplier)]

calculateStraightPath(from, to, coordConfig) ==
  [segments |-> <<lineSegment(from, to, coordConfig)>>,
   length |-> Mul(distance(from, to), coordConfig.multiplier)]

\* startFrom is swapped when the edge is crossed from its target
adjustedConfig(config, isReversed) ==
  IF isReversed
  THEN [config EXCEPT !.startFrom = IF config.startFrom = "from" THEN "to" ELSE "from"]
  ELSE config

\* variant: an edge of unrecognised type is drawn as a simple edge when it has
\* a simple payload
calculateEdgePath_payloadOnly(fromNode, toNode, edge, coordConfig) ==
  LET from == [x |-> fromNode.x, y |-> fromNode.y]
      to   == [x |-> toNode.x, y |-> toNode.y]
      isReversed == edge.target = fromNode.key
  IN  IF edge.type = "perpendicular" /\ Len(edge.perpendicular) > 0
      THEN calculatePerpendicularPath(from, to,
             adjustedConfig(edge.perpendicular[1], isReversed), coordConfig)
      ELSE IF edge.type = "diagonal" /\ Len(edge.diagonal) > 0
      THEN calculateDiagonalPath(from, to,
             adjustedConfig(edge.diagonal[1], isReversed), coordConfig)
      ELSE IF Len(edge.simple) > 0
      THEN calculateSimplePath(from, to, edge.simple[1], coordConfig)
      ELSE calculateStraightPath(from, to, coordConfig)

\* a payload field of an edge is <<>> when absent, else <<config>>
calculateEdgePath(fromNode, toNode, edge, coordConfig) ==
  LET from == [x |-> fromNode.x, y |-> fromNode.y]
      to   == [x |-> toNode.x, y |-> toNode.y]
      isReversed == edge.target = fromNode.key
  IN  IF edge.type = "perpendicular" /\ Len(edge.perpendicular) > 0
      THEN calculatePerpendicularPath(from, to,
             adjustedConfig(edge.perpendicular[1], isReversed), coordConfig)
      ELSE IF edge.type = "diagonal" /\ Len(edge.diagonal) > 0
      THEN calculateDiagonalPath(from, to,
             adjustedConfig(edge.diagonal[1], isReversed), coordConfig)
      ELSE IF edge.type = "simple" /\ Len(edge.simple) > 0
      THEN calculateSimplePath(from, to, edge.simple[1], coordConfig)
      ELSE calculateStraightPath(from, to, coordConfig)

(***************************************************************************)
(* parseRMPData: one color group                                           *)
(***************************************************************************)
\* the station-type nodes of the ordered node list with their positions in it
\* variant: the ordered nodes are not filtered by type
RECURSIVE stationNodesFrom_unfiltered(_, _, _, _)
stationNodesFrom_unfiltered(keys, i, nodeMap, acc) ==
  IF i > Len(keys) THEN acc
  ELSE stationNodesFrom_unfiltered(keys, i + 1, nodeMap,
         IF keys[i] \in DOMAIN nodeMap
         THEN Append(acc, [node |-> nodeMap[keys[i]], originalIndex |-> i])
         ELSE acc)

RECURSIVE stationNodesFrom(_, _, _, _)
stationNodesFrom(keys, i, nodeMap, acc) ==
  IF i > Len(keys) THEN acc
  ELSE stationNodesFrom(keys, i + 1, nodeMap,
         IF keys[i] \in DOMAIN nodeMap /\ isStationNode(nodeMap[keys[i]])
         THEN Append(acc, [node |-> nodeMap[keys[i]], originalIndex |-> i])
         ELSE acc)

stationMapIndex(map, name) ==
  IF \E k \in 1..Len(map) : map[k].name = name
  THEN CHOOSE k \in 1..Len(map) : map[k].name = name
  ELSE 0

\* [...new Set([...existing.lines, lineName])]
unionLineName(ls, lineName) ==
  IF seqHas(ls, lineName) THEN ls ELSE Append(ls, lineName)

updateStationMap(map, station, lineName) ==
  LET k == stationMapIndex(map, station.name)
  IN  IF k # 0
      THEN LET merged == unionLineName(map[k].lines, lineName)
           IN  [map EXCEPT ![k] = [@ EXCEPT !.lines = merged,
                                            !.isTransfer = Len(merged) > 1]]
      ELSE Append(map, station)

RECURSIVE buildLineStations(_, _, _, _, _, _)
buildLineStations(sn, i, lineStations, map, lineName, coordConfig) ==
  IF i > Len(sn) THEN [lineStations |-> lineStations, map |-> map]
  ELSE LET node == sn[i].node
           name == getStationName(node)
       IN  IF name = NULL \/ name = ""
           THEN buildLineStations(sn, i + 1, lineStations, map, lineName, coordConfig)
           ELSE LET station == [name        |-> name,
                                coord       |-> rmpToGameCoord(node.x, node.y, coordConfig),
                                stationCode |-> i,
                                isTransfer  |-> isTransferStation(node),
                                lines       |-> <<lineName>>]
                IN  buildLineStations(sn, i + 1, Append(lineStations, station),
                                      updateStationMap(map, station, lineName),
                                      lineName, coordConfig)

\* the paths of the edges at positions edgeIdx .. toIdx-1 of the ordered edge list
RECURSIVE combineEdgePaths(_, _, _, _, _, _)
combineEdgePaths(edgeIdx, toIdx, tr, nodeMap, coordConfig, acc) ==
  IF edgeIdx >= toIdx THEN acc
  ELSE LET fromKey == tr.orderedNodes[edgeIdx]
           toKey   == tr.orderedNodes[edgeIdx + 1]
           acc1 == IF /\ edgeIdx <= Len(tr.orderedEdges)
                      /\ fromKey \in DOMAIN nodeMap
                      /\ toKey \in DOMAIN nodeMap
                   THEN LET path == calculateEdgePath(nodeMap[fromKey], nodeMap[toKey],
                                                      tr.orderedEdges[edgeIdx], coordConfig)
                        IN  [segments |-> acc.segments \o path.segments,
                             length   |-> Add(acc.length, path.length)]
                   ELSE acc
       IN  combineEdgePaths(edgeIdx + 1, toIdx, tr, nodeMap, coordConfig, acc1)

edgePathBetween(a, b, tr, nodeMap, coordConfig) ==
  LET comb == combineEdgePaths(a.originalIndex, b.originalIndex, tr, nodeMap,
                               coordConfig, [segments |-> <<>>, length |-> 0])
  IN  IF Len(comb.segments) = 0
      THEN calculateStraightPath([x |-> a.node.x, y |-> a.node.y],
                                 [x |-> b.node.x, y |-> b.node.y], coordConfig)
      ELSE comb

buildEdgePaths(sn, tr, nodeMap, coordConfig) ==
  [i \in 1..(Len(sn) - 1) |-> edgePathBetween(sn[i], sn[i + 1], tr, nodeMap, coordConfig)]

\* `线路${lineIndex}` (the prefix is written "Line" here)
placeholderLineName(i) == "Line" \o ToString(i)

lineIdOf(i) == "RMP-" \o ToString(i)

lineNameOf(color, lineBadges, i) ==
  IF color \in DOMAIN lineBadges /\ lineBadges[color] # ""
  THEN lineBadges[color]
  ELSE placeholderLineName(i)

\* variant: a line is emitted for a single named station too
hasEnoughStations_one(lineStations) == Len(lineStations) >= 1

\* if (lineStations.length >= 2)
hasEnoughStations(lineStations) == Len(lineStations) >= 2

\* variant: a group that emits no line still takes a line number
skipLine_counted(st, map) ==
  [st EXCEPT !.allStationsMap = map, !.lineIndex = @ + 1]

\* the loop body when no line is emitted: only allStationsMap has changed
skipLine(st, map) == [st EXCEPT !.allStationsMap = map]

\* the body of the loop over linesByColor; st holds lines, allStationsMap, lineIndex
processColorGroup(st, group, ns, coordConfig) ==
  LET nodeMap == nodeMapOf(ns)
      tr      == getOrderedStationsWithEdges(group.edges)
      sn      == stationNodesFrom(tr.orderedNodes, 1, nodeMap, <<>>)
  IN  IF Len(sn) < 2 THEN st
      ELSE LET lineName == lineNameOf(group.color, getLineBadges(ns), st.lineIndex)
               built    == buildLineStations(sn, 1, <<>>, st.allStationsMap,
                                             lineName, coordConfig)
           IN  IF hasEnoughStations(built.lineStations)
               THEN [lines |-> Append(st.lines,
                                 [bureau    |-> "RMP",
                                  line      |-> lineName,
                                  lineId    |-> lineIdOf(st.lineIndex),
                                  stations  |-> built.lineStations,
                                  color     |-> group.color,
                                  edgePaths |-> buildEdgePaths(sn, tr, nodeMap, coordConfig)]),
                     allStationsMap |-> built.map,
                     lineIndex |-> st.lineIndex + 1]
               ELSE skipLine(st, built.map)

\* variant: the second pass copies the flag but not the line set
updateTransferInfo_flagOnly(ls, map) ==
  [l \in 1..Len(ls) |->
     [ls[l] EXCEPT !.stations =
        [k \in 1..Len(ls[l].stations) |->
           LET station == ls[l].stations[k]
               g == stationMapIndex(map, station.name)
           IN  IF g # 0
               THEN [station EXCEPT !.isTransfer = map[g].isTransfer]
               ELSE station]]]

\* the second pass over the emitted lines
updateTransferInfo(ls, map) ==
  [l \in 1..Len(ls) |->
     [ls[l] EXCEPT !.stations =
        [k \in 1..Len(ls[l].stations) |->
           LET station == ls[l].stations[k]
               g == stationMapIndex(map, station.name)
           IN  IF g # 0
               THEN [station EXCEPT !.isTransfer = map[g].isTransfer,
                                    !.lines = map[g].lines]
               ELSE station]]]

\* variant: the line counter outlives the call
parseLocals_staleCounter(old) ==
  [lines |-> <<>>, allStationsMap |-> <<>>, lineIndex |-> old.lineIndex]

\* the locals of a call; old holds what the previous call left behind
parseLocals(old) == [lines |-> <<>>, allStationsMap |-> <<>>, lineIndex |-> 1]

RECURSIVE processGroupsFrom(_, _, _, _, _)
processGroupsFrom(groups, i, st, ns, coordConfig) ==
  IF i > Len(groups) THEN st
  ELSE processGroupsFrom(groups, i + 1,
                         processColorGroup(st, groups[i], ns, coordConfig),
                         ns, coordConfig)

\* the body of parseRMPData once coordConfig is selected
parseWithConfig(ns, es, coordConfig) ==
  LET st == processGroupsFrom(groupByColor(es), 1,
                              parseLocals([lines |-> <<>>, allStationsMap |-> <<>>,
                                           lineIndex |-> 1]),
                              ns, coordConfig)
  IN  [lines |-> updateTransferInfo(st.lines, st.allStationsMap),
       stations |-> st.allStationsMap]

parseRMPData(ns, es, w) == parseWithConfig(ns, es, coordConfigOf(w))

(***************************************************************************)
(* Input documents                                                         *)
(***************************************************************************)
NodeKeys == <<"n1", "n2", "n3", "n4">>

\* the corners of a 3 x 4 rectangle
GridX == <<0, 3 * Unit, 3 * Unit, 0>>
GridY == <<0, 0, 4 * Unit, 4 * Unit>>

Color1 == <<"city", "l1", "#c1", "#fff">>
Color2 == <<"city", "l2", "#c2", "#fff">>

mkNode(i, kind) ==
  [key |-> NodeKeys[i], x |-> GridX[i], y |-> GridY[i],
   type |-> kind.type, names |-> kind.names, color |-> <<>>]

badgeNode ==
  [key |-> "b1", x |-> Unit, y |-> Unit, type |-> "bjsubway-text-line-badge",
   names |-> <<"L">>, color |-> Color1]

mkEdge(a, b, vis, col) ==
  [source |-> a, target |-> b, visible |-> vis, color |-> col,
   type |-> "simple", simple |-> <<[offset |-> 0]>>,
   perpendicular |-> <<>>, diagonal |-> <<>>]

KBasic(n)  == [type |-> "bjsubway-basic", names |-> <<n>>]
KInt(n)    == [type |-> "bjsubway-int", names |-> <<n>>]
KUnnamed   == [type |-> "bjsubway-basic", names |-> <<>>]
KVirtual   == [type |-> "virtual", names |-> <<>>]
KLabelled  == [type |-> "virtual", names |-> <<"A">>]

SeqsUpTo(S, n) == UNION {[1..k -> S] : k \in 1..n}

\* topology inputs: every edge list over four nodes, one color, all visible
TopoNodeLists ==
  { <<mkNode(1, KBasic("A")), mkNode(2, KBasic("B")),
      mkNode(3, KBasic("C")), mkNode(4, KBasic("D"))>>,
    <<mkNode(1, KBasic("A")), mkNode(2, KInt("B")),
      mkNode(3, KBasic("C")), mkNode(4, KVirtual)>> }

TopoEdges ==
  {mkEdge(NodeKeys[a], NodeKeys[b], TRUE, Color1) :
     <<a, b>> \in {p \in (1..4) \X (1..4) : p[1] # p[2]}}

\* attribute inputs: three nodes of every kind, edges of two colors, some hidden
AttrKinds == {KBasic("A"), KBasic("B"), KInt("A"), KUnnamed, KLabelled}

AttrNodeLists ==
  { <<mkNode(1, k1), mkNode(2, k2), mkNode(3, k3)>> \o tail :
      k1 \in AttrKinds, k2 \in AttrKinds, k3 \in AttrKinds,
      tail \in {<<>>, <<badgeNode>>} }

AttrEdges ==
  {mkEdge(p[1], p[2], vis, col) :
     p \in {<<"n1", "n2">>, <<"n2", "n3">>},
     vis \in BOOLEAN, col \in {Color1, Color2}}

\* curve inputs: two stations joined through two bend nodes, every edge of
\* every curve kind
CurveNodes ==
  <<mkNode(1, KBasic("A")), mkNode(2, KVirtual), mkNode(3, KVirtual), mkNode(4, KBasic("B"))>>

CurveConfig(startFrom) ==
  [startFrom |-> startFrom, offsetFrom |-> 0, offsetTo |-> 0, roundCornerFactor |-> Unit]

\* the type and payloads of an edge; "bezier" stands for any unrecognised type
CurveKinds ==
  { [type |-> "simple", simple |-> <<[offset |-> 0]>>, perpendicular |-> <<>>, diagonal |-> <<>>],
    [type |-> "simple", simple |-> <<[offset |-> Unit]>>, perpendicular |-> <<>>, diagonal |-> <<>>],
    [type |-> "simple", simple |-> <<>>, perpendicular |-> <<>>, diagonal |-> <<>>],
    [type |-> "bezier", simple |-> <<[offset |-> Unit]>>, perpendicular |-> <<>>, diagonal |-> <<>>],
    [type |-> "perpendicular", simple |-> <<[offset |-> Unit]>>, perpendicular |-> <<>>,
     diagonal |-> <<>>],
    [type |-> "perpendicular", simple |-> <<>>, perpendicular |-> <<CurveConfig("from")>>,
     diagonal |-> <<>>],
    [type |-> "diagonal", simple |-> <<>>, perpendicular |-> <<CurveConfig("to")>>,
     diagonal |-> <<>>],
    [type |-> "diagonal", simple |-> <<>>, perpendicular |-> <<>>,
     diagonal |-> <<CurveConfig("to")>>] }

curveEdge(a, b, kind) ==
  [source |-> a, target |-> b, visible |-> TRUE, color |-> Color1,
   type |-> kind.type, simple |-> kind.simple,
   perpendicular |-> kind.perpendicular, diagonal |-> kind.diagonal]

\* a path, a path with its first edge stored backwards, and a branch at a bend
CurveTopologies ==
  { <<<<"n1", "n3">>, <<"n3", "n2">>, <<"n2", "n4">>>>,
    <<<<"n3", "n1">>, <<"n3", "n2">>, <<"n2", "n4">>>>,
    <<<<"n1", "n2">>, <<"n2", "n3">>, <<"n2", "n4">>>> }

CurveEdgeLists ==
  { [i \in 1..3 |-> curveEdge(t[i][1], t[i][2], ks[i])] :
      t \in CurveTopologies, ks \in [1..3 -> CurveKinds] }

\* other inputs: a station node without a position, two line badges of one
\* name for two colors, world ids outside the table
noPosition(node) == [node EXCEPT !.x = NaN, !.y = NaN]

badgeNode2 ==
  [key |-> "b2", x |-> Unit, y |-> 2 * Unit, type |-> "bjsubway-text-line-badge",
   names |-> <<"L">>, color |-> Color2]

MiscNodeLists ==
  { <<mkNode(1, KBasic("A")), mkNode(2, KBasic("B")), mkNode(3, KBasic("C")),
      badgeNode, badgeNode2>>,
    <<mkNode(1, KBasic("A")), noPosition(mkNode(2, KBasic("P"))), mkNode(3, KBasic("C"))>>,
    <<mkNode(1, KBasic("A")), mkNode(2, KBasic("B")), mkNode(3, KBasic("C"))>> }

NoResult == [lines |-> <<>>, stations |-> <<>>]

InitCall ==
  /\ pc = "idle"
  /\ linesByColor = <<>>
  /\ groupIdx = 1
  /\ lines = <<>>
  /\ allStationsMap = <<>>
  /\ lineIndex = 1
  /\ result = NoResult
  /\ prevResult = NoResult
  /\ calls = 0

InitTopology ==
  /\ nodes \in TopoNodeLists
  /\ edges \in SeqsUpTo(TopoEdges, MaxEdges)
  /\ worldId \in {"zth", "houtu"}

InitAttributes ==
  /\ nodes \in AttrNodeLists
  /\ edges \in SeqsUpTo(AttrEdges, MaxAttrEdges)
  /\ worldId = "eden"

InitCurves ==
  /\ nodes = CurveNodes
  /\ edges \in CurveEdgeLists
  /\ worldId = "houtu"

InitMisc ==
  /\ nodes \in MiscNodeLists
  /\ edges \in SeqsUpTo(AttrEdges, MaxAttrEdges)
  /\ worldId \in {"zth", "eden", "constructor"}

\* no builder call and no closest-point call is under way
NoPathCall == [builder |-> "none", done |-> TRUE]
NoSnapCall == [done |-> TRUE]

\* no ring call is under way, and the Mapping components are not mounted
NoRingCall == [done |-> TRUE]
Unmounted == [mounted |-> FALSE]
NoToolCall == [op |-> "none"]

NoFetch == [pc |-> "idle"]

NoApp ==
  /\ mirrorFetch = NoFetch
  /\ landmarkLayer = Unmounted
  /\ mapContainer = Unmounted
  /\ measuring = Unmounted
  /\ beforeUndo = <<>>

NoTools ==
  /\ ringCall = NoRingCall
  /\ assist = Unmounted
  /\ control = Unmounted
  /\ toolCall = NoToolCall
  /\ NoApp

Init ==
  /\ InitTopology \/ InitAttributes \/ InitCurves \/ InitMisc
  /\ InitCall
  /\ pathCall = NoPathCall
  /\ snapCall = NoSnapCall
  /\ NoTools

(***************************************************************************)
(* parseRMPData as steps                                                   *)
(***************************************************************************)
\* entry of parseRMPData up to the loop over linesByColor
BeginParse ==
  /\ pc = "idle"
  /\ calls < MaxCalls
  /\ LET loc == parseLocals([lines |-> lines, allStationsMap |-> allStationsMap,
                             lineIndex |-> lineIndex])
     IN  /\ lines' = loc.lines
         /\ allStationsMap' = loc.allStationsMap
         /\ lineIndex' = loc.lineIndex
  /\ linesByColor' = groupByColor(edges)
  /\ groupIdx' = 1
  /\ calls' = calls + 1
  /\ prevResult' = result
  /\ pc' = "loop"
  /\ UNCHANGED <<nodes, edges, worldId, result, pathCall, snapCall, toolVars>>

\* one iteration of the loop over linesByColor
ColorGroupStep ==
  /\ pc = "loop"
  /\ groupIdx <= Len(linesByColor)
  /\ LET st == processColorGroup([lines |-> lines, allStationsMap |-> allStationsMap,
                                  lineIndex |-> lineIndex],
                                 linesByColor[groupIdx], nodes, coordConfigOf(worldId))
     IN  /\ lines' = st.lines
         /\ allStationsMap' = st.allStationsMap
         /\ lineIndex' = st.lineIndex
  /\ groupIdx' = groupIdx + 1
  /\ UNCHANGED <<nodes, edges, worldId, pc, linesByColor, result, prevResult, calls,
                 pathCall, snapCall, toolVars>>

\* the second pass and the return
FinishParse ==
  /\ pc = "loop"
  /\ groupIdx > Len(linesByColor)
  /\ lines' = updateTransferInfo(lines, allStationsMap)
  /\ result' = [lines |-> lines', stations |-> allStationsMap]
  /\ pc' = "idle"
  /\ UNCHANGED <<nodes, edges, worldId, linesByColor, groupIdx, allStationsMap,
                 lineIndex, prevResult, calls, pathCall, snapCall, toolVars>>

Next == BeginParse \/ ColorGroupStep \/ FinishParse

Spec == Init /\ [][Next]_vars

Returned == pc = "idle" /\ calls >= 1

(***************************************************************************)
(* The path builders called on their own                                   *)
(***************************************************************************)
parserVars == <<nodes, edges, worldId, pc, linesByColor, groupIdx, lines,
                allStationsMap, lineIndex, result, prevResult, calls>>

NoDocument ==
  /\ nodes = <<>>
  /\ edges = <<>>
  /\ worldId = "zth"
  /\ InitCall

GridPoints == {[x |-> GridX[i], y |-> GridY[i]] : i \in 1..4}

\* the rectangle's corners and one point whose displacement from the first
\* corner is wider than tall
BuilderPoints == GridPoints \cup {[x |-> 4 * Unit, y |-> 3 * Unit]}

\* the two table entries and one config whose scale is 2
BuilderCoordConfigs ==
  { WORLD_COORD_CONFIGS.zth, WORLD_COORD_CONFIGS.houtu,
    [scale |-> 2 * Unit, offset |-> 0, multiplier |-> Unit] }

\* one record for SimpleConfig, PerpendicularConfig and DiagonalConfig
BuilderConfigs ==
  [offset : {0, Unit}, startFrom : {"from", "to"}, offsetFrom : {0, Unit},
   offsetTo : {0, Unit}, roundCornerFactor : {0, Unit}]

PathCalls ==
  [builder : {"straight", "simple", "perpendicular", "diagonal"},
   from : BuilderPoints, to : BuilderPoints, config : BuilderConfigs,
   coordConfig : BuilderCoordConfigs, done : {FALSE}]

\* roundCornerFactor below, at and above half the shorter adjoining leg
RoundFactors == {0, Unit, 2 * Unit, 3 * Unit}

\* applyRoundCorner called alone, on corners whose legs have exact directions
RoundCalls ==
  [builder : {"applyRoundCorner"}, before : GridPoints, corner : GridPoints,
   after : GridPoints, factor : RoundFactors, done : {FALSE}]

\* one edge from node "s" to node "t" with the payload of its type, to be
\* crossed in both directions
edgeBetween(type, config) ==
  [source |-> "s", target |-> "t", type |-> type,
   perpendicular |-> IF type = "perpendicular" THEN <<config>> ELSE <<>>,
   diagonal      |-> IF type = "diagonal" THEN <<config>> ELSE <<>>,
   simple        |-> IF type = "simple" THEN <<config>> ELSE <<>>]

nodeAt(key, p) == [key |-> key, x |-> p.x, y |-> p.y]

EdgeCalls ==
  { [builder |-> "calculateEdgePath", source |-> nodeAt("s", sp), target |-> nodeAt("t", tp),
     edge |-> edgeBetween(type, config), coordConfig |-> WORLD_COORD_CONFIGS.zth,
     paths |-> <<>>, done |-> FALSE] :
      sp \in BuilderPoints, tp \in BuilderPoints,
      type \in {"perpendicular", "diagonal", "simple"}, config \in BuilderConfigs }

BuilderInit ==
  /\ NoDocument
  /\ pathCall \in PathCalls \cup RoundCalls \cup EdgeCalls
  /\ snapCall = NoSnapCall
  /\ NoTools

returnPath(path) ==
  /\ pathCall' = [builder |-> pathCall.builder, from |-> pathCall.from, to |-> pathCall.to,
                  config |-> pathCall.config, coordConfig |-> pathCall.coordConfig,
                  done |-> TRUE, path |-> path]
  /\ UNCHANGED <<parserVars, snapCall, toolVars>>

CallStraight ==
  /\ ~pathCall.done
  /\ pathCall.builder = "straight"
  /\ returnPath(calculateStraightPath(pathCall.from, pathCall.to, pathCall.coordConfig))

CallSimple ==
  /\ ~pathCall.done
  /\ pathCall.builder = "simple"
  /\ returnPath(calculateSimplePath(pathCall.from, pathCall.to, pathCall.config,
                                    pathCall.coordConfig))

CallPerpendicular ==
  /\ ~pathCall.done
  /\ pathCall.builder = "perpendicular"
  /\ returnPath(calculatePerpendicularPath(pathCall.from, pathCall.to, pathCall.config,
                                           pathCall.coordConfig))

CallDiagonal ==
  /\ ~pathCall.done
  /\ pathCall.builder = "diagonal"
  /\ returnPath(calculateDiagonalPath(pathCall.from, pathCall.to, pathCall.config,
                                      pathCall.coordConfig))

CallApplyRoundCorner ==
  /\ ~pathCall.done
  /\ pathCall.builder = "applyRoundCorner"
  /\ pathCall' = [builder |-> pathCall.builder, before |-> pathCall.before,
                  corner |-> pathCall.corner, after |-> pathCall.after,
                  factor |-> pathCall.factor, done |-> TRUE,
                  round |-> applyRoundCorner(pathCall.before, pathCall.corner,
                                             pathCall.after, pathCall.factor)]
  /\ UNCHANGED <<parserVars, snapCall, toolVars>>

\* the traversal crosses the edge from its source to its target
CallEdgePathForward ==
  /\ ~pathCall.done
  /\ pathCall.builder = "calculateEdgePath"
  /\ Len(pathCall.paths) = 0
  /\ pathCall' = [pathCall EXCEPT
                    !.paths = <<calculateEdgePath(pathCall.source, pathCall.target,
                                                  pathCall.edge, pathCall.coordConfig)>>]
  /\ UNCHANGED <<parserVars, snapCall, toolVars>>

\* the traversal crosses the same edge from its target to its source
CallEdgePathBackward ==
  /\ ~pathCall.done
  /\ pathCall.builder = "calculateEdgePath"
  /\ Len(pathCall.paths) = 1
  /\ pathCall' = [pathCall EXCEPT
                    !.paths = Append(@, calculateEdgePath(pathCall.target, pathCall.source,
                                                          pathCall.edge, pathCall.coordConfig)),
                    !.done = TRUE]
  /\ UNCHANGED <<parserVars, snapCall, toolVars>>

BuilderNext ==
  \/ CallStraight
  \/ CallSimple
  \/ CallPerpendicular
  \/ CallDiagonal
  \/ CallApplyRoundCorner
  \/ CallEdgePathForward
  \/ CallEdgePathBackward

BuilderSpec == BuilderInit /\ [][BuilderNext]_vars

(***************************************************************************)
(* Mapping tools: closestPointOnSegment (ControlPointTools, AssistLineTools) *)
(*                                                                         *)
(* Coordinates of world points are exact fractions [n, d] in lowest terms; *)
(* d = 0 is a number that is not finite.  A distance is kept as the        *)
(* fraction it is the square root of.  A call is made on one of two        *)
(* scales: coordinates counted in blocks, or in steps of 1e-7 block, on    *)
(* which 1e-12 is 100 squared units.                                       *)
(***************************************************************************)
RECURSIVE GCD(_, _)
GCD(a, b) == IF b = 0 THEN a ELSE GCD(b, a % b)

NotFinite == [n |-> 0, d |-> 0]

Number_isFinite(r) == r.d # 0

\* n / d in lowest terms, d > 0
Frac(n, d) ==
  LET g == GCD(IF n < 0 THEN 0 - n ELSE n, d)
  IN  [n |-> n \div g, d |-> d \div g]

Whole(k) == [n |-> k, d |-> 1]

plus(r, q) ==
  IF r.d = 0 \/ q.d = 0 THEN NotFinite
  ELSE LET g == GCD(r.d, q.d)
       IN  Frac(r.n * (q.d \div g) + q.n * (r.d \div g), (r.d \div g) * q.d)

minus(r, q) == plus(r, [n |-> 0 - q.n, d |-> q.d])

times(r, q) ==
  IF r.d = 0 \/ q.d = 0 THEN NotFinite
  ELSE LET a == Frac(r.n, q.d)
           b == Frac(q.n, r.d)
       IN  Frac(a.n * b.n, a.d * b.d)

\* r / q for q > 0
over(r, q) ==
  IF r.d = 0 \/ q.d = 0 \/ q.n <= 0 THEN NotFinite
  ELSE times(r, [n |-> q.d, d |-> q.n])

\* r < q, r <= q; false when either is not finite
less(r, q) == r.d # 0 /\ q.d # 0 /\ r.n * q.d < q.n * r.d

lessEq(r, q) == r.d # 0 /\ q.d # 0 /\ r.n * q.d <= q.n * r.d

\* Math.hypot(dx, dz), as the number it is the square root of
hypot(dx, dz) == [squared |-> plus(times(dx, dx), times(dz, dz))]

\* 1e-12 in squared units of the scale of the call; in blocks the ends of a
\* segment are whole, and a whole squared length is <= 1e-12 only when <= 0
SegmentEpsilon(fine) == IF fine THEN Whole(100) ELSE Whole(0)

\* variant: values above 1 are not clamped
clamp01_lowerOnly(n) ==
  IF less(n, Whole(0)) THEN Whole(0)
  ELSE n

clamp01(n) ==
  IF less(n, Whole(0)) THEN Whole(0)
  ELSE IF less(Whole(1), n) THEN Whole(1)
  ELSE n

closestPointOnSegment(p, a, b, fine) ==
  LET abx == minus(b.x, a.x)
      abz == minus(b.z, a.z)
      apx == minus(p.x, a.x)
      apz == minus(p.z, a.z)
      denom == plus(times(abx, abx), times(abz, abz))
  IN  IF ~Number_isFinite(denom) \/ lessEq(denom, SegmentEpsilon(fine))
      THEN [point |-> a, t |-> Whole(0), dist |-> hypot(minus(p.x, a.x), minus(p.z, a.z))]
      ELSE LET t == clamp01(over(plus(times(apx, abx), times(apz, abz)), denom))
               q == [x |-> plus(a.x, times(abx, t)), z |-> plus(a.z, times(abz, t))]
           IN  [point |-> q, t |-> t, dist |-> hypot(minus(p.x, q.x), minus(p.z, q.z))]

WorldPt(x, z) == [x |-> Whole(x), z |-> Whole(z)]

\* calls in blocks: every p, a, b of a 4 x 4 grid, and segments with an end
\* that has a coordinate which is not finite
BlockCalls ==
  LET G == {WorldPt(x, z) : x \in 0..3, z \in 0..3}
      Lost == {[x |-> NotFinite, z |-> Whole(1)]}
  IN  [p : G, a : G, b : G, fine : {FALSE}, done : {FALSE}]
        \cup [p : {WorldPt(1, 2)}, a : Lost, b : G, fine : {FALSE}, done : {FALSE}]
        \cup [p : {WorldPt(1, 2)}, a : G, b : Lost, fine : {FALSE}, done : {FALSE}]

\* calls in steps of 1e-7 block: segments of squared length around 1e-12
FineCalls ==
  [p : {WorldPt(0, 0), WorldPt(6, 8), WorldPt(8, 8), WorldPt(4, 4), WorldPt(11, 0)},
   a : {WorldPt(0, 0), WorldPt(1, 0)},
   b : {WorldPt(0, 0), WorldPt(6, 8), WorldPt(8, 8), WorldPt(10, 0), WorldPt(11, 0)},
   fine : {TRUE}, done : {FALSE}]

SnapInit ==
  /\ NoDocument
  /\ pathCall = NoPathCall
  /\ snapCall \in BlockCalls \cup FineCalls
  /\ NoTools

CallClosestPointOnSegment ==
  /\ ~snapCall.done
  /\ snapCall' = [p |-> snapCall.p, a |-> snapCall.a, b |-> snapCall.b,
                  fine |-> snapCall.fine, done |-> TRUE,
                  out |-> closestPointOnSegment(snapCall.p, snapCall.a, snapCall.b,
                                                snapCall.fine)]
  /\ UNCHANGED <<parserVars, pathCall, toolVars>>

SnapNext == CallClosestPointOnSegment

SnapSpec == SnapInit /\ [][SnapNext]_vars

(***************************************************************************)
(* Mapping tools: closestPointOnRings (ControlPointTools, AssistLineTools) *)
(*                                                                         *)
(* A geometry is [rings, closed]: a sequence of rings, each a sequence of  *)
(* world points, and for each ring whether it is closed.  Indices keep the *)
(* values of the program (the first ring and the first segment are 0).     *)
(* Rings are in blocks; the coordinates met are whole or fractions of      *)
(* small denominator, which differ by 1e-9 or less only when equal.        *)
(***************************************************************************)
null == [null |-> TRUE]

\* Number.POSITIVE_INFINITY
POSITIVE_INFINITY == [n |-> 1, d |-> 0]

\* d1 < d2 on distances: false when d1 is not finite, true for a finite d1
\* when d2 is infinite
distLess(d1, d2) ==
  /\ Number_isFinite(d1.squared)
  /\ \/ d2.squared = POSITIVE_INFINITY
     \/ less(d1.squared, d2.squared)

\* let best, before the scan (ControlPointTools)
NoBest ==
  [point |-> null, dist |-> [squared |-> POSITIVE_INFINITY], ringIndex |-> 0 - 1,
   segIndex |-> 0 - 1, t |-> Whole(0)]

\* variant: on equal distances the later segment replaces the earlier
betterOf_lastWins(cand, best, r, i) ==
  IF distLess(cand.dist, best.dist) \/ cand.dist = best.dist
  THEN [point |-> cand.point, dist |-> cand.dist, ringIndex |-> r, segIndex |-> i,
        t |-> cand.t]
  ELSE best

\* if (cand.dist < best.dist) best = {...}
betterOf(cand, best, r, i) ==
  IF distLess(cand.dist, best.dist)
  THEN [point |-> cand.point, dist |-> cand.dist, ringIndex |-> r, segIndex |-> i,
        t |-> cand.t]
  ELSE best

\* the loop over the segments i .. lastSeg - 1 of ring r
RECURSIVE scanSegments(_, _, _, _, _, _)
scanSegments(p, ring, lastSeg, r, i, best) ==
  IF i >= lastSeg THEN best
  ELSE scanSegments(p, ring, lastSeg, r, i + 1,
                    betterOf(closestPointOnSegment(p, ring[i + 1],
                                                   ring[((i + 1) % Len(ring)) + 1], FALSE),
                             best, r, i))

\* const lastSeg = closed ? n : n - 1
lastSegOf(ring, closed) == IF closed THEN Len(ring) ELSE Len(ring) - 1

\* the loop over the rings r .. of geom
RECURSIVE scanRings(_, _, _, _)
scanRings(p, geom, r, best) ==
  IF r >= Len(geom.rings) THEN best
  ELSE scanRings(p, geom, r + 1,
                 IF Len(geom.rings[r + 1]) < 2 THEN best
                 ELSE scanSegments(p, geom.rings[r + 1],
                                   lastSegOf(geom.rings[r + 1], geom.closed[r + 1]),
                                   r, 0, best))

closestPointOnRings(p, geom) == scanRings(p, geom, 0, NoBest)

\* the same scan in AssistLineTools, whose best has a point and a distance only
assistNoBest == [point |-> null, dist |-> [squared |-> POSITIVE_INFINITY]]

assistBetterOf(cand, best) ==
  IF distLess(cand.dist, best.dist)
  THEN [point |-> cand.point, dist |-> cand.dist]
  ELSE best

RECURSIVE assistScanSegments(_, _, _, _, _)
assistScanSegments(p, ring, lastSeg, i, best) ==
  IF i >= lastSeg THEN best
  ELSE assistScanSegments(p, ring, lastSeg, i + 1,
                          assistBetterOf(closestPointOnSegment(p, ring[i + 1],
                                                               ring[((i + 1) % Len(ring)) + 1],
                                                               FALSE),
                                         best))

RECURSIVE assistScanRings(_, _, _, _)
assistScanRings(p, geom, r, best) ==
  IF r >= Len(geom.rings) THEN best
  ELSE assistScanRings(p, geom, r + 1,
                       IF Len(geom.rings[r + 1]) < 2 THEN best
                       ELSE assistScanSegments(p, geom.rings[r + 1],
                                               lastSegOf(geom.rings[r + 1], geom.closed[r + 1]),
                                               0, best))

assistClosestPointOnRings(p, geom) == assistScanRings(p, geom, 0, assistNoBest)

\* the geometries of the ring calls: an open and a closed corner, two parallel
\* lines, a ring of one point before a line, no usable ring, and the line of
\* the scenario from (0,0) to (10,0)
CornerRing == <<WorldPt(0, 0), WorldPt(4, 0), WorldPt(4, 4)>>

RingGeometries ==
  { [rings |-> <<CornerRing>>, closed |-> <<FALSE>>],
    [rings |-> <<CornerRing>>, closed |-> <<TRUE>>],
    [rings |-> << <<WorldPt(0, 0), WorldPt(4, 0)>>, <<WorldPt(0, 2), WorldPt(4, 2)>> >>,
     closed |-> <<FALSE, FALSE>>],
    [rings |-> << <<WorldPt(1, 1)>>, <<WorldPt(0, 4), WorldPt(4, 4)>> >>,
     closed |-> <<FALSE, FALSE>>],
    [rings |-> << <<WorldPt(1, 1)>> >>, closed |-> <<TRUE>>],
    [rings |-> <<>>, closed |-> <<>>],
    [rings |-> << <<WorldPt(0, 0), WorldPt(10, 0)>> >>, closed |-> <<FALSE>>] }

RingQueryPoints ==
  {WorldPt(x, z) : x \in 0..4, z \in 0..4}
    \cup {WorldPt(5, 5), [x |-> NotFinite, z |-> Whole(1)]}

RingCalls == [p : RingQueryPoints, geom : RingGeometries, done : {FALSE}]

RingInit ==
  /\ NoDocument
  /\ pathCall = NoPathCall
  /\ snapCall = NoSnapCall
  /\ ringCall \in RingCalls
  /\ assist = Unmounted
  /\ control = Unmounted
  /\ toolCall = NoToolCall
  /\ NoApp

CallClosestPointOnRings ==
  /\ ~ringCall.done
  /\ ringCall' = [p |-> ringCall.p, geom |-> ringCall.geom, done |-> TRUE,
                  best |-> closestPointOnRings(ringCall.p, ringCall.geom),
                  assistBest |-> assistClosestPointOnRings(ringCall.p, ringCall.geom)]
  /\ UNCHANGED <<parserVars, pathCall, snapCall, assist, control, toolCall, appVars>>

RingNext == CallClosestPointOnRings

RingSpec == RingInit /\ [][RingNext]_vars

(***************************************************************************)
(* Mapping tools: the AssistLineTools component                            *)
(*                                                                         *)
(* assist holds the state of the component (enabled, panelOpen, threshold, *)
(* mode, target, picking).  The text of an input field is read when its    *)
(* button is pressed and is the input of that action, as a sequence of     *)
(* characters.  A feature of the map is given by its rings in world        *)
(* coordinates.                                                            *)
(***************************************************************************)
Digits == <<"0", "1", "2", "3", "4", "5", "6", "7", "8", "9">>

isDigit(c) == \E k \in 1..10 : Digits[k] = c

digitValue(c) == (CHOOSE k \in 1..10 : Digits[k] = c) - 1

allDigits(cs) == \A i \in 1..Len(cs) : isDigit(cs[i])

RECURSIVE digitsValue(_)
digitsValue(cs) ==
  IF cs = <<>> THEN 0
  ELSE digitsValue(SubSeq(cs, 1, Len(cs) - 1)) * 10 + digitValue(cs[Len(cs)])

RECURSIVE powerOfTen(_)
powerOfTen(k) == IF k = 0 THEN 1 ELSE 10 * powerOfTen(k - 1)

\* String.prototype.trim, on blanks
RECURSIVE trim(_)
trim(cs) ==
  IF cs = <<>> THEN cs
  ELSE IF cs[1] = " " THEN trim(Tail(cs))
  ELSE IF cs[Len(cs)] = " " THEN trim(SubSeq(cs, 1, Len(cs) - 1))
  ELSE cs

\* the position of the first "." of cs, or 0
dotAt(cs) ==
  IF \E i \in 1..Len(cs) : cs[i] = "."
  THEN CHOOSE i \in 1..Len(cs) : cs[i] = "." /\ \A j \in 1..(i - 1) : cs[j] # "."
  ELSE 0

\* Number(text) of digits with at most one "." among them, unsigned
unsignedNumber(cs, dot) ==
  IF dot = 0
  THEN IF cs # <<>> /\ allDigits(cs) THEN Whole(digitsValue(cs)) ELSE NotFinite
  ELSE IF /\ Len(cs) >= 2
          /\ allDigits(SubSeq(cs, 1, dot - 1))
          /\ allDigits(SubSeq(cs, dot + 1, Len(cs)))
       THEN Frac(digitsValue(SubSeq(cs, 1, dot - 1) \o SubSeq(cs, dot + 1, Len(cs))),
                 powerOfTen(Len(cs) - dot))
       ELSE NotFinite

signedNumber(cs) ==
  IF cs[1] = "-"
  THEN minus(Whole(0), unsignedNumber(Tail(cs), dotAt(Tail(cs))))
  ELSE unsignedNumber(cs, dotAt(cs))

\* Number(text) for a decimal text: blank text is 0, a text that is not a
\* number is NaN
Number(cs) == IF trim(cs) = <<>> THEN Whole(0) ELSE signedNumber(trim(cs))

\* /^-?\d+$/.test(raw)
isIntegerText(raw) ==
  /\ raw # <<>>
  /\ IF raw[1] = "-" THEN Len(raw) >= 2 /\ allDigits(Tail(raw)) ELSE allDigits(raw)

\* Number.parseInt(raw, 10) of a text that passed the test
Number_parseInt(raw) ==
  IF raw[1] = "-" THEN 0 - digitsValue(Tail(raw)) ELSE digitsValue(raw)

Math_abs(r) == IF r.d # 0 /\ r.n < 0 THEN [n |-> 0 - r.n, d |-> r.d] ELSE r

\* a number that is >= 0, as a distance
distanceOf(d) == [squared |-> times(d, d)]

\* d <= v and d > v for a distance d and a number v >= 0
distLessEq(d, v) == lessEq(d.squared, times(v, v))

distGreater(d, v) == less(times(v, v), d.squared)

\* defaultThreshold = 20
defaultThreshold == Whole(20)

\* the state after the first render
AssistInitial ==
  [enabled |-> FALSE, panelOpen |-> FALSE, threshold |-> defaultThreshold,
   mode |-> "pickFeature", target |-> null, picking |-> FALSE]

\* the Polyline layers of the map: a line, a triangle, and a feature of two
\* rings of one point
MapFeatures ==
  { [stamp |-> 1, isPolygon |-> FALSE,
     rings |-> << <<WorldPt(0, 0), WorldPt(40, 0)>> >>],
    [stamp |-> 2, isPolygon |-> TRUE,
     rings |-> << <<WorldPt(0, 0), WorldPt(40, 0), WorldPt(40, 40)>> >>],
    [stamp |-> 3, isPolygon |-> FALSE,
     rings |-> << <<WorldPt(7, 7)>>, <<WorldPt(9, 9)>> >>] }

\* for (const rr of llRings) ... if (wr.length >= 2) wRings.push(wr)
RECURSIVE wRingsOf(_)
wRingsOf(llRings) ==
  IF llRings = <<>> THEN <<>>
  ELSE IF Len(llRings[1]) >= 2 THEN <<llRings[1]>> \o wRingsOf(Tail(llRings))
  ELSE wRingsOf(Tail(llRings))

\* geom: { rings: wRings, closed: wRings.map(() => Boolean(isPolygon)) }
geomOfFeature(f) ==
  [rings |-> wRingsOf(f.rings),
   closed |-> [i \in 1..Len(wRingsOf(f.rings)) |-> f.isPolygon]]

\* the target set by a click on feature f while picking
leafletFeatureTarget(f) ==
  [kind |-> "leafletFeature", label |-> [stamp |-> f.stamp, isPolygon |-> f.isPolygon],
   geom |-> geomOfFeature(f)]

fixedLineTarget(axis, v) ==
  [kind |-> "fixedLine", axis |-> axis, value |-> Whole(v),
   label |-> [axis |-> axis, value |-> v]]

\* variant: a point at exactly the threshold is not snapped
fixedLineSnap_strict(p, target, threshold, d) ==
  IF less(d, threshold)
  THEN [point |-> IF target.axis = "x" THEN [x |-> target.value, z |-> p.z]
                  ELSE [x |-> p.x, z |-> target.value],
        snapped |-> TRUE, dist |-> distanceOf(d), targetLabel |-> target.label]
  ELSE [point |-> p, snapped |-> FALSE, dist |-> distanceOf(d),
        targetLabel |-> target.label]

\* transformWorldPoint, target.kind === 'fixedLine', d the distance to the line
fixedLineSnap(p, target, threshold, d) ==
  IF lessEq(d, threshold)
  THEN [point |-> IF target.axis = "x" THEN [x |-> target.value, z |-> p.z]
                  ELSE [x |-> p.x, z |-> target.value],
        snapped |-> TRUE, dist |-> distanceOf(d), targetLabel |-> target.label]
  ELSE [point |-> p, snapped |-> FALSE, dist |-> distanceOf(d),
        targetLabel |-> target.label]

\* const d = Number.isFinite(best.dist) ? best.dist : null
finiteOrNull(dist) == IF Number_isFinite(dist.squared) THEN dist ELSE null

\* variant: a point at exactly the threshold is not snapped
ringSnap_strict(p, target, threshold, point, d) ==
  IF point # null /\ d # null /\ less(d.squared, times(threshold, threshold))
  THEN [point |-> point, snapped |-> TRUE, dist |-> d, targetLabel |-> target.label]
  ELSE [point |-> p, snapped |-> FALSE, dist |-> d, targetLabel |-> target.label]

\* transformWorldPoint, a feature target, point and d of the nearest projection
ringSnap(p, target, threshold, point, d) ==
  IF point # null /\ d # null /\ distLessEq(d, threshold)
  THEN [point |-> point, snapped |-> TRUE, dist |-> d, targetLabel |-> target.label]
  ELSE [point |-> p, snapped |-> FALSE, dist |-> d, targetLabel |-> target.label]

\* transformWorldPoint of a component in state a
transformWorldPoint(a, p) ==
  IF ~a.enabled \/ a.target = null
  THEN [point |-> p, snapped |-> FALSE, dist |-> null, targetLabel |-> null]
  ELSE IF a.target.kind = "fixedLine"
  THEN fixedLineSnap(p, a.target, a.threshold,
                     IF a.target.axis = "x" THEN Math_abs(minus(p.x, a.target.value))
                     ELSE Math_abs(minus(p.z, a.target.value)))
  ELSE ringSnap(p, a.target, a.threshold,
                assistClosestPointOnRings(p, a.target.geom).point,
                finiteOrNull(assistClosestPointOnRings(p, a.target.geom).dist))

(***************************************************************************)
(* Mapping tools: the ControlPointTools component                          *)
(*                                                                         *)
(* control holds the state of the component; measuringLayers is the prop   *)
(* of that name.                                                           *)
(***************************************************************************)
\* const SNAP_MAX_DIST = 20
SNAP_MAX_DIST == Whole(20)

\* null where a layer id is expected (ids are positive)
nullId == 0 - 1

\* the state after the first render
ControlInitial ==
  [snapEnabled |-> FALSE, editEnabled |-> FALSE, addEnabled |-> FALSE,
   snapPanelOpen |-> FALSE, snapPicking |-> FALSE, addPanelOpen |-> FALSE,
   addTargetLayerId |-> nullId, pendingEdits |-> <<>>, selectedVertex |-> null,
   snapTarget |-> null]

\* the snap target set by a click on feature f while picking
snapTargetOf(f) ==
  [source |-> "leaflet", label |-> [stamp |-> f.stamp, isPolygon |-> f.isPolygon],
   geom |-> geomOfFeature(f)]

\* variant: a miss returns the clicked point, not blocked
snapOutcome_passThrough(p, point, dist) ==
  IF point = null \/ ~Number_isFinite(dist.squared)
  THEN [point |-> p, blocked |-> FALSE]
  ELSE IF distGreater(dist, SNAP_MAX_DIST)
  THEN [point |-> p, blocked |-> FALSE]
  ELSE [point |-> point, blocked |-> FALSE]

\* applySnap after closestPointOnRings: point and dist of best
snapOutcome(p, point, dist) ==
  IF point = null \/ ~Number_isFinite(dist.squared)
  THEN [point |-> p, blocked |-> FALSE]
  ELSE IF distGreater(dist, SNAP_MAX_DIST)
  THEN [point |-> null, blocked |-> TRUE, reason |-> [missed |-> SNAP_MAX_DIST]]
  ELSE [point |-> point, blocked |-> FALSE]

\* applySnap of a component in state c
applySnap(c, p) ==
  IF ~c.snapEnabled THEN [point |-> p, blocked |-> FALSE]
  ELSE IF c.snapTarget = null THEN [point |-> p, blocked |-> FALSE]
  ELSE snapOutcome(p, closestPointOnRings(p, c.snapTarget.geom).point,
                   closestPointOnRings(p, c.snapTarget.geom).dist)

(***************************************************************************)
(* The two components on one map: the buttons of the assist panel, the     *)
(* buttons of the snap panel, and calls of transformWorldPoint and of      *)
(* applySnap (transformWorldPointForDraw).  toolCall is the call under way *)
(* with its value; no handler runs before it has returned.                 *)
(***************************************************************************)
\* the texts of the threshold field: 5, 5.0, 20, blank, -1, a
ThresholdTexts ==
  { <<"5">>, <<"5", ".", "0">>, <<"2", "0">>, <<>>, <<"-", "1">>, <<"a">> }

\* the texts of the fixed-line field: 100, " 0 ", 1.5, blank
FixedValueTexts ==
  { <<"1", "0", "0">>, <<" ", "0", " ">>, <<"1", ".", "5">>, <<>> }

\* the points clicked: around the features at the distances 19, 20 and 21,
\* and 5 and 6, off the end of a line at 20 and beyond, the point of the
\* axis scenario and its neighbours at 20 and 21, and a point that is not
\* finite
ClickPoints ==
  { WorldPt(10, 19), WorldPt(10, 20), WorldPt(10, 21), WorldPt(10, 5), WorldPt(10, 6),
    WorldPt(52, 16), WorldPt(52, 17), WorldPt(110, 50), WorldPt(120, 50),
    WorldPt(121, 50), [x |-> NotFinite, z |-> Whole(1)] }

ToolsInit ==
  /\ NoDocument
  /\ pathCall = NoPathCall
  /\ snapCall = NoSnapCall
  /\ ringCall = NoRingCall
  /\ assist = AssistInitial
  /\ control = ControlInitial
  /\ toolCall = NoToolCall
  /\ NoApp

otherVars == <<parserVars, pathCall, snapCall, ringCall, appVars>>

\* variant: disabling leaves the target in place
AssistToggle_keepsTarget ==
  /\ toolCall = NoToolCall
  /\ assist' = IF ~assist.enabled
               THEN [assist EXCEPT !.enabled = TRUE, !.panelOpen = TRUE]
               ELSE [assist EXCEPT !.enabled = FALSE, !.picking = FALSE]
  /\ UNCHANGED <<otherVars, control, toolCall>>

\* the assist-line button
AssistToggle ==
  /\ toolCall = NoToolCall
  /\ assist' = IF ~assist.enabled
               THEN [assist EXCEPT !.enabled = TRUE, !.panelOpen = TRUE]
               ELSE [assist EXCEPT !.enabled = FALSE, !.target = null, !.picking = FALSE]
  /\ UNCHANGED <<otherVars, control, toolCall>>

\* the panel is rendered
assistPanel == assist.enabled /\ assist.panelOpen

\* the close button of the panel
AssistClosePanel ==
  /\ toolCall = NoToolCall
  /\ assistPanel
  /\ assist' = [assist EXCEPT !.panelOpen = FALSE, !.picking = FALSE]
  /\ UNCHANGED <<otherVars, control, toolCall>>

\* applyThreshold with thresholdInput = text
applyThreshold(text) ==
  /\ toolCall = NoToolCall
  /\ assistPanel
  /\ assist' = IF ~Number_isFinite(Number(text)) \/ less(Number(text), Whole(0))
               THEN assist
               ELSE [assist EXCEPT !.threshold = Number(text)]
  /\ UNCHANGED <<otherVars, control, toolCall>>

AssistApplyThreshold == \E text \in ThresholdTexts : applyThreshold(text)

\* a mode button
AssistSetMode ==
  /\ toolCall = NoToolCall
  /\ assistPanel
  /\ \E m \in {"fixedLine", "pickFeature"} :
       assist' = [assist EXCEPT !.mode = m,
                                !.picking = IF m # "pickFeature" THEN FALSE ELSE @]
  /\ UNCHANGED <<otherVars, control, toolCall>>

\* applyFixedLine with fixedAxis = axis and fixedValueInput = text
applyFixedLine(axis, text) ==
  /\ toolCall = NoToolCall
  /\ assistPanel
  /\ assist.mode = "fixedLine"
  /\ assist' = IF ~isIntegerText(trim(text))
               THEN assist
               ELSE [assist EXCEPT !.target = fixedLineTarget(axis, Number_parseInt(trim(text)))]
  /\ UNCHANGED <<otherVars, control, toolCall>>

AssistApplyFixedLine ==
  \E axis \in {"x", "z"} : \E text \in FixedValueTexts : applyFixedLine(axis, text)

beginPicking ==
  /\ toolCall = NoToolCall
  /\ assistPanel
  /\ assist.mode = "pickFeature"
  /\ assist' = [assist EXCEPT !.picking = TRUE]
  /\ UNCHANGED <<otherVars, control, toolCall>>

\* the click handler bound by beginPicking, on feature f
AssistPickFeature ==
  /\ toolCall = NoToolCall
  /\ assist.picking
  /\ \E f \in MapFeatures :
       assist' = [assist EXCEPT !.target = leafletFeatureTarget(f), !.picking = FALSE]
  /\ UNCHANGED <<otherVars, control, toolCall>>

\* the clear-target button
AssistClearTarget ==
  /\ toolCall = NoToolCall
  /\ assistPanel
  /\ assist' = [assist EXCEPT !.target = null, !.picking = FALSE]
  /\ UNCHANGED <<otherVars, control, toolCall>>

\* the exit-picking button
AssistExitPicking ==
  /\ toolCall = NoToolCall
  /\ assistPanel
  /\ assist' = [assist EXCEPT !.picking = FALSE]
  /\ UNCHANGED <<otherVars, control, toolCall>>

CallTransformWorldPoint ==
  /\ toolCall = NoToolCall
  /\ \E p \in ClickPoints :
       toolCall' = [op |-> "transformWorldPoint", p |-> p,
                    out |-> transformWorldPoint(assist, p)]
  /\ UNCHANGED <<otherVars, assist, control>>

\* the control-point snap button, and the effect that ends picking
ControlToggleSnap ==
  /\ toolCall = NoToolCall
  /\ control' = IF ~control.snapEnabled
                THEN [control EXCEPT !.snapEnabled = TRUE, !.snapPanelOpen = TRUE]
                ELSE [control EXCEPT !.snapEnabled = FALSE, !.snapTarget = null,
                                     !.snapPicking = FALSE]
  /\ UNCHANGED <<otherVars, assist, toolCall>>

snapPanel == control.snapEnabled /\ control.snapPanelOpen

ControlCloseSnapPanel ==
  /\ toolCall = NoToolCall
  /\ snapPanel
  /\ control' = [control EXCEPT !.snapPanelOpen = FALSE, !.snapPicking = FALSE]
  /\ UNCHANGED <<otherVars, assist, toolCall>>

beginSnapPicking ==
  /\ toolCall = NoToolCall
  /\ snapPanel
  /\ control' = [control EXCEPT !.snapPicking = TRUE]
  /\ UNCHANGED <<otherVars, assist, toolCall>>

\* the click handler bound by beginSnapPicking, on feature f
ControlPickSnapTarget ==
  /\ toolCall = NoToolCall
  /\ control.snapPicking
  /\ \E f \in MapFeatures :
       control' = [control EXCEPT !.snapTarget = snapTargetOf(f), !.snapPicking = FALSE]
  /\ UNCHANGED <<otherVars, assist, toolCall>>

ControlClearSnapTarget ==
  /\ toolCall = NoToolCall
  /\ snapPanel
  /\ control' = [control EXCEPT !.snapTarget = null]
  /\ UNCHANGED <<otherVars, assist, toolCall>>

cancelSnapPicking ==
  /\ toolCall = NoToolCall
  /\ snapPanel
  /\ control' = [control EXCEPT !.snapPicking = FALSE]
  /\ UNCHANGED <<otherVars, assist, toolCall>>

CallApplySnap ==
  /\ toolCall = NoToolCall
  /\ \E p \in ClickPoints :
       toolCall' = [op |-> "applySnap", p |-> p, out |-> applySnap(control, p)]
  /\ UNCHANGED <<otherVars, assist, control>>

\* the call returns to its caller
ToolCallReturns ==
  /\ toolCall # NoToolCall
  /\ toolCall' = NoToolCall
  /\ UNCHANGED <<otherVars, assist, control>>

ToolsNext ==
  \/ AssistToggle
  \/ AssistClosePanel
  \/ AssistApplyThreshold
  \/ AssistSetMode
  \/ AssistApplyFixedLine
  \/ beginPicking
  \/ AssistPickFeature
  \/ AssistClearTarget
  \/ AssistExitPicking
  \/ CallTransformWorldPoint
  \/ ControlToggleSnap
  \/ ControlCloseSnapPanel
  \/ beginSnapPicking
  \/ ControlPickSnapTarget
  \/ ControlClearSnapTarget
  \/ cancelSnapPicking
  \/ CallApplySnap
  \/ ToolCallReturns

ToolsSpec == ToolsInit /\ [][ToolsNext]_vars

(***************************************************************************)
(* The ControlPointTools component in add mode: the mode buttons, the add  *)
(* panel, and clicks on the map.  toolCall is the click being handled.     *)
(***************************************************************************)
\* samePoint's eps, 1e-9: the coordinates met differ by that or less only
\* when they are equal
PointEpsilon == Whole(0)

samePoint(a, b) ==
  /\ lessEq(Math_abs(minus(a.x, b.x)), PointEpsilon)
  /\ lessEq(Math_abs(minus(a.z, b.z)), PointEpsilon)

\* ring.pop() when the ring is closed in the data
withoutRepeatedEnd(ring) ==
  IF Len(ring) >= 2 /\ samePoint(ring[1], ring[Len(ring)])
  THEN SubSeq(ring, 1, Len(ring) - 1)
  ELSE ring

normalizeRingsForPolygonLike(coords, isPolygon) ==
  [rings |-> <<withoutRepeatedEnd(coords)>>, closed |-> <<isPolygon>>]

\* the prop measuringLayers: a line of three points, a triangle, a hidden line
\* that ends where it starts, and a point
measuringLayers ==
  << [id |-> 1, mode |-> "polyline", visible |-> TRUE,
      coords |-> <<WorldPt(0, 0), WorldPt(40, 0), WorldPt(40, 40)>>],
     [id |-> 2, mode |-> "polygon", visible |-> TRUE,
      coords |-> <<WorldPt(0, 0), WorldPt(40, 0), WorldPt(40, 40)>>],
     [id |-> 3, mode |-> "polyline", visible |-> FALSE,
      coords |-> <<WorldPt(0, 0), WorldPt(40, 0), WorldPt(40, 40), WorldPt(0, 0)>>],
     [id |-> 4, mode |-> "point", visible |-> TRUE,
      coords |-> <<WorldPt(5, 5)>>] >>

\* measuringLayers.find((l) => l.id === id), the layer exists
layerOf(id) == measuringLayers[CHOOSE i \in 1..Len(measuringLayers) : measuringLayers[i].id = id]

\* polyOrPolyLayers, by id
polyOrPolyLayers ==
  {measuringLayers[i].id : i \in {j \in 1..Len(measuringLayers) :
                                    measuringLayers[j].mode \in {"polyline", "polygon"}}}

getEffectiveCoords(c, layer) ==
  IF layer.id \in DOMAIN c.pendingEdits THEN c.pendingEdits[layer.id] ELSE layer.coords

\* const insertIndex = ...
insertIndexOf(mode, segIndex, n) ==
  IF mode = "polygon"
  THEN IF segIndex >= n - 1 THEN n ELSE segIndex + 1
  ELSE IF segIndex < 0 THEN n
       ELSE IF segIndex + 1 < n THEN segIndex + 1 ELSE n

\* nextCoords.splice(insertIndex, 0, point)
splice(coords, insertIndex, point) ==
  SubSeq(coords, 1, insertIndex) \o <<point>> \o SubSeq(coords, insertIndex + 1, Len(coords))

\* setPendingEdits((prev) => ({ ...prev, [layer.id]: nextCoords }))
withPendingEdit(prev, id, nextCoords) ==
  [k \in DOMAIN prev \cup {id} |-> IF k = id THEN nextCoords ELSE prev[k]]

\* the add-mode click after closestPointOnRings: coords is geom.rings[0]
insertAt(c, layer, coords, best) ==
  IF best.point = null \/ ~Number_isFinite(best.dist.squared) THEN c
  ELSE IF distGreater(best.dist, SNAP_MAX_DIST) THEN c
  ELSE IF Len(coords) < 2 THEN c
  ELSE [c EXCEPT !.pendingEdits =
          withPendingEdit(c.pendingEdits, layer.id,
                          splice(coords, insertIndexOf(layer.mode, best.segIndex, Len(coords)),
                                 best.point))]

insertOnLayer(c, layer, geom, p) ==
  insertAt(c, layer, geom.rings[1], closestPointOnRings(p, geom))

\* onMapClick of add mode, on the world point p
addModeClick(c, p) ==
  IF ~c.addEnabled THEN c
  ELSE IF c.addTargetLayerId = nullId THEN c
  ELSE IF layerOf(c.addTargetLayerId).mode \notin {"polyline", "polygon"} THEN c
  ELSE insertOnLayer(c, layerOf(c.addTargetLayerId),
                     normalizeRingsForPolygonLike(
                       getEffectiveCoords(c, layerOf(c.addTargetLayerId)),
                       layerOf(c.addTargetLayerId).mode = "polygon"),
                     p)

\* baseCoords.map((p, i) => (i === vertexIndex ? point : p)), vertexIndex from 0
replaceVertex(baseCoords, vertexIndex, point) ==
  [i \in 1..Len(baseCoords) |-> IF i = vertexIndex + 1 THEN point ELSE baseCoords[i]]

\* variant: the vertex is replaced in the layer's saved coordinates
moveVertex_fromSaved(c, layer, baseCoords, vertexIndex, point) ==
  IF vertexIndex < 0 \/ vertexIndex >= Len(layer.coords) THEN c
  ELSE [c EXCEPT !.pendingEdits =
          withPendingEdit(c.pendingEdits, layer.id,
                          replaceVertex(layer.coords, vertexIndex, point))]

\* the edit-mode click after applySnap, on the layer of the selected vertex
moveVertex(c, layer, baseCoords, vertexIndex, point) ==
  IF vertexIndex < 0 \/ vertexIndex >= Len(baseCoords) THEN c
  ELSE [c EXCEPT !.pendingEdits =
          withPendingEdit(c.pendingEdits, layer.id,
                          replaceVertex(baseCoords, vertexIndex, point))]

\* measuringLayers.find((l) => l.id === id) finds a layer
hasLayer(id) == \E i \in 1..Len(measuringLayers) : measuringLayers[i].id = id

editWithSnapped(c, snapped) ==
  IF snapped.blocked \/ snapped.point = null THEN c
  ELSE IF ~hasLayer(c.selectedVertex.layerId) THEN c
  ELSE moveVertex(c, layerOf(c.selectedVertex.layerId),
                  getEffectiveCoords(c, layerOf(c.selectedVertex.layerId)),
                  c.selectedVertex.vertexIndex, snapped.point)

\* onMapClick of edit mode, on the world point p
editModeClick(c, p) ==
  IF ~c.editEnabled THEN c
  ELSE IF c.selectedVertex = null THEN c
  ELSE editWithSnapped(c, applySnap(c, p))

\* the two functional updates of pendingEdits queued by one click, both
\* computed from the state of the last render: first edit mode's, then add
\* mode's
bothUpdates(prev, edited, added) ==
  [k \in DOMAIN edited \cup DOMAIN added |->
     IF k \in DOMAIN added /\ (k \notin DOMAIN prev \/ added[k] # prev[k])
     THEN added[k]
     ELSE edited[k]]

\* one click on the map runs the click handler of edit mode and the click
\* handler of add mode
mapClick(c, p) ==
  [c EXCEPT !.pendingEdits =
     bothUpdates(c.pendingEdits, editModeClick(c, p).pendingEdits,
                 addModeClick(c, p).pendingEdits)]

\* Object.keys(pendingEdits) in ascending order of id, as patches
RECURSIVE patchesFrom(_, _)
patchesFrom(pendingEdits, ids) ==
  IF ids = {} THEN <<>>
  ELSE LET id == CHOOSE k \in ids : \A j \in ids : k <= j
       IN  <<[layerId |-> id, newCoords |-> pendingEdits[id]]>>
             \o patchesFrom(pendingEdits, ids \ {id})

\* variant: onCommit is called once for each patch
onCommitCalls_perPatch(c) ==
  [i \in 1..Len(patchesFrom(c.pendingEdits, DOMAIN c.pendingEdits)) |->
     <<patchesFrom(c.pendingEdits, DOMAIN c.pendingEdits)[i]>>]

\* the calls of onCommit made by commitEdits in state c
onCommitCalls(c) ==
  IF DOMAIN c.pendingEdits = {} THEN <<>>
  ELSE <<patchesFrom(c.pendingEdits, DOMAIN c.pendingEdits)>>

\* the layers whose control points are drawn: visible lines and polygons
vertexLayers ==
  {measuringLayers[i].id : i \in {j \in 1..Len(measuringLayers) :
                                    /\ measuringLayers[j].visible
                                    /\ measuringLayers[j].mode \in {"polyline", "polygon"}}}

\* the range of a list of points
pointsOf(coords) == {coords[i] : i \in 1..Len(coords)}

\* the pending control points that are none of their layer's saved points
RECURSIVE pointsNew(_, _)
pointsNew(c, ids) ==
  IF ids = {} THEN 0
  ELSE LET id == CHOOSE k \in ids : TRUE
       IN  Cardinality({i \in 1..Len(c.pendingEdits[id]) :
                          c.pendingEdits[id][i] \notin pointsOf(layerOf(id).coords)})
             + pointsNew(c, ids \ {id})

\* the control points added to all layers and not saved
RECURSIVE pointsAdded(_, _)
pointsAdded(c, ids) ==
  IF ids = {} THEN 0
  ELSE LET id == CHOOSE k \in ids : TRUE
       IN  Len(c.pendingEdits[id]) - Len(withoutRepeatedEnd(layerOf(id).coords))
             + pointsAdded(c, ids \ {id})

MaxAdded == 2

\* the points clicked in add mode: at 5 and at 20 from the first segment, at
\* 20 from the second, at equal distance from the two, next to the segment
\* from the last point to the first and farther than 20 from the others, far
\* from everything, and a point that is not finite
AddClickPoints ==
  { WorldPt(10, 5), WorldPt(10, 20), WorldPt(60, 20), WorldPt(30, 10), WorldPt(18, 22),
    WorldPt(10, 100), [x |-> NotFinite, z |-> Whole(1)] }

\* snapping is on and the line from (0,0) to (40,0) has been picked as target
SnappingToLine ==
  [ControlInitial EXCEPT
     !.snapEnabled = TRUE, !.snapPanelOpen = TRUE,
     !.snapTarget = snapTargetOf(CHOOSE f \in MapFeatures : f.stamp = 1)]

\* the component as first rendered, or with the snap target picked
ControlInit ==
  /\ NoDocument
  /\ pathCall = NoPathCall
  /\ snapCall = NoSnapCall
  /\ ringCall = NoRingCall
  /\ assist = Unmounted
  /\ control \in {ControlInitial, SnappingToLine}
  /\ toolCall = NoToolCall
  /\ NoApp

toggleEdit ==
  /\ toolCall = NoToolCall
  /\ control' = IF ~control.editEnabled
                THEN [control EXCEPT !.editEnabled = TRUE, !.addEnabled = FALSE,
                                     !.addPanelOpen = FALSE, !.addTargetLayerId = nullId]
                ELSE [control EXCEPT !.editEnabled = FALSE, !.selectedVertex = null]
  /\ UNCHANGED <<otherVars, assist, toolCall>>

\* variant: switching add mode on leaves edit mode and the selection alone
toggleAdd_keepsEdit ==
  /\ toolCall = NoToolCall
  /\ control' = IF ~control.addEnabled
                THEN [control EXCEPT !.addEnabled = TRUE, !.addPanelOpen = TRUE]
                ELSE [control EXCEPT !.addEnabled = FALSE, !.addTargetLayerId = nullId,
                                     !.addPanelOpen = FALSE]
  /\ UNCHANGED <<otherVars, assist, toolCall>>

toggleAdd ==
  /\ toolCall = NoToolCall
  /\ control' = IF ~control.addEnabled
                THEN [control EXCEPT !.addEnabled = TRUE, !.editEnabled = FALSE,
                                     !.selectedVertex = null, !.addPanelOpen = TRUE]
                ELSE [control EXCEPT !.addEnabled = FALSE, !.addTargetLayerId = nullId,
                                     !.addPanelOpen = FALSE]
  /\ UNCHANGED <<otherVars, assist, toolCall>>

\* the close button of the add panel
ControlCloseAddPanel ==
  /\ toolCall = NoToolCall
  /\ control.addEnabled
  /\ control.addPanelOpen
  /\ control' = [control EXCEPT !.addPanelOpen = FALSE, !.addEnabled = FALSE,
                                !.addTargetLayerId = nullId]
  /\ UNCHANGED <<otherVars, assist, toolCall>>

\* a layer button of the add panel
ControlSelectAddLayer ==
  /\ toolCall = NoToolCall
  /\ control.addEnabled
  /\ control.addPanelOpen
  /\ \E id \in polyOrPolyLayers : control' = [control EXCEPT !.addTargetLayerId = id]
  /\ UNCHANGED <<otherVars, assist, toolCall>>

\* the clear button
ControlClearPending ==
  /\ toolCall = NoToolCall
  /\ control' = [control EXCEPT !.pendingEdits = <<>>, !.selectedVertex = null]
  /\ UNCHANGED <<otherVars, assist, toolCall>>

\* a click on a control point marker
SelectVertex ==
  /\ toolCall = NoToolCall
  /\ control.editEnabled \/ control.addEnabled
  /\ \E id \in vertexLayers :
       \E idx \in 0..(Len(getEffectiveCoords(control, layerOf(id))) - 1) :
         control' = IF ~control.editEnabled THEN control
                    ELSE [control EXCEPT
                            !.selectedVertex = [layerId |-> id, vertexIndex |-> idx]]
  /\ UNCHANGED <<otherVars, assist, toolCall>>

\* every coordinate of the list is a whole number
wholeCoords(coords) ==
  \A i \in 1..Len(coords) : coords[i].x.d = 1 /\ coords[i].z.d = 1

\* the points added and the points moved so far are fewer than the bound,
\* and no point is added to a layer with a point that is not whole (a point
\* added next to such a point is beyond the range of the numbers here)
withinBounds(c) ==
  /\ pointsAdded(c, DOMAIN c.pendingEdits) < MaxAdded
  /\ pointsNew(c, DOMAIN c.pendingEdits) < MaxAdded
  /\ (c.addEnabled /\ c.addTargetLayerId # nullId)
       => wholeCoords(getEffectiveCoords(c, layerOf(c.addTargetLayerId)))

\* the points clicked in edit mode: at 5 from the line the snap target is,
\* and at 30 from it
EditClickPoints == { WorldPt(10, 5), WorldPt(10, 30) }

\* a click on the map
MapClick ==
  /\ toolCall = NoToolCall
  /\ withinBounds(control)
  /\ \E p \in IF control.editEnabled THEN EditClickPoints ELSE AddClickPoints :
       /\ toolCall' = [op |-> "onMapClick", p |-> p]
       /\ control' = mapClick(control, p)
  /\ UNCHANGED <<otherVars, assist>>

\* the save button
commitEdits ==
  /\ toolCall = NoToolCall
  /\ toolCall' = [op |-> "commitEdits", onCommit |-> onCommitCalls(control)]
  /\ control' = IF DOMAIN control.pendingEdits = {} THEN control
                ELSE [control EXCEPT !.pendingEdits = <<>>, !.selectedVertex = null]
  /\ UNCHANGED <<otherVars, assist>>

\* the handler has run
MapClickReturns ==
  /\ toolCall # NoToolCall
  /\ toolCall' = NoToolCall
  /\ UNCHANGED <<otherVars, assist, control>>

ControlNext ==
  \/ toggleEdit
  \/ toggleAdd
  \/ ControlCloseAddPanel
  \/ ControlSelectAddLayer
  \/ ControlClearPending
  \/ SelectVertex
  \/ MapClick
  \/ commitEdits
  \/ MapClickReturns

ControlSpec == ControlInit /\ [][ControlNext]_vars

(***************************************************************************)
(* fetchWithMirror (src/src/lib/fetchWithMirror.ts)                        *)
(*                                                                         *)
(* One call is followed step by step: the 'loading' event, one iteration   *)
(* of the loop over GITHUB_RAW_MIRRORS per step, and the code after the    *)
(* loop.  A URL is the record of the parts the conversion rearranges.  The *)
(* network is an input: answers[i] is what the i-th request of the call    *)
(* meets.  The progress callback is a function that records the event and  *)
(* returns normally, as the loading store's updateStage does.              *)
(***************************************************************************)
GITHUB_RAW_MIRRORS ==
  << "https://raw.githubusercontent.com",
     "https://raw.kkgithub.com",
     "https://fastly.jsdelivr.net/gh" >>

\* a URL https://{host}[/gh]/{owner}/{repo}{sep}{branch}/{path}
GitHubRawUrl ==
  [host |-> "raw.githubusercontent.com", gh |-> FALSE, owner |-> "o", repo |-> "r",
   sep |-> "/", branch |-> "main", path |-> "data.json"]

\* a URL the regular expression of convertToMirrorUrl does not match
OtherUrl ==
  [host |-> "example.org", gh |-> FALSE, owner |-> "o", repo |-> "r",
   sep |-> "/", branch |-> "main", path |-> "data.json"]

matchesGitHubRaw(url) ==
  url.host = "raw.githubusercontent.com" /\ ~url.gh /\ url.sep = "/"

convertToMirrorUrl(originalUrl, mirror) ==
  IF ~matchesGitHubRaw(originalUrl) THEN originalUrl
  ELSE IF mirror = "https://raw.githubusercontent.com" THEN originalUrl
  ELSE IF mirror = "https://raw.kkgithub.com"
    THEN [originalUrl EXCEPT !.host = "raw.kkgithub.com"]
  ELSE IF mirror = "https://fastly.jsdelivr.net/gh"
    THEN [originalUrl EXCEPT !.host = "fastly.jsdelivr.net", !.gh = TRUE, !.sep = "@"]
  ELSE originalUrl

\* what a request can meet: a 2xx answer with a JSON body, a 2xx answer whose
\* body response.json() rejects, a non-2xx answer, a rejected or timed-out fetch
FetchAnswers == {"json", "notJson", "notOk", "rejected"}

FetchCalls ==
  [pc : {"called"}, url : {GitHubRawUrl, OtherUrl}, hasProgress : BOOLEAN,
   answers : [1..Len(GITHUB_RAW_MIRRORS) -> FetchAnswers]]

\* onProgress?.({ stage, status })
onProgress(call, events, status) ==
  IF call.hasProgress THEN Append(events, status) ELSE events

\* one iteration of the loop stopping at the first failure (a variant)
tryMirror_throwsAtFirstFailure(call) ==
  LET mirror == GITHUB_RAW_MIRRORS[call.i]
      mirrorUrl == convertToMirrorUrl(call.url, mirror)
      asked == [call EXCEPT !.tried = Append(@, mirror),
                            !.contacted = Append(@, mirrorUrl)]
  IN IF call.answers[call.i] = "json"
       THEN [asked EXCEPT !.pc = "returned",
                          !.data = [from |-> mirrorUrl],
                          !.events = onProgress(call, @, "success")]
       ELSE [asked EXCEPT !.pc = "thrown",
                          !.events = onProgress(call, @, "error")]

\* one iteration of the loop of fetchWithMirror: the request, the ok test,
\* response.json(), then the 'success' event and the return, or the catch
tryMirror(call) ==
  LET mirror == GITHUB_RAW_MIRRORS[call.i]
      mirrorUrl == convertToMirrorUrl(call.url, mirror)
      asked == [call EXCEPT !.tried = Append(@, mirror),
                            !.contacted = Append(@, mirrorUrl)]
  IN IF call.answers[call.i] = "json"
       THEN [asked EXCEPT !.pc = "returned",
                          !.data = [from |-> mirrorUrl],
                          !.events = onProgress(call, @, "success")]
       ELSE [asked EXCEPT !.i = @ + 1]

FetchInit ==
  /\ NoDocument
  /\ pathCall = NoPathCall
  /\ snapCall = NoSnapCall
  /\ ringCall = NoRingCall
  /\ assist = Unmounted
  /\ control = Unmounted
  /\ toolCall = NoToolCall
  /\ mirrorFetch \in FetchCalls
  /\ landmarkLayer = Unmounted
  /\ mapContainer = Unmounted
  /\ measuring = Unmounted
  /\ beforeUndo = <<>>

\* entry of fetchWithMirror: the 'loading' event, lastError = null
BeginFetch ==
  /\ mirrorFetch.pc = "called"
  /\ mirrorFetch' =
       [pc |-> "loop", url |-> mirrorFetch.url, hasProgress |-> mirrorFetch.hasProgress,
        answers |-> mirrorFetch.answers, i |-> 1, tried |-> <<>>, contacted |-> <<>>,
        events |-> onProgress(mirrorFetch, <<>>, "loading"), data |-> null]
  /\ UNCHANGED <<parserVars, pathCall, snapCall, ringCall, assist, control, toolCall,
                 landmarkLayer, mapContainer, measuring, beforeUndo>>

TryMirror ==
  /\ mirrorFetch.pc = "loop"
  /\ mirrorFetch.i <= Len(GITHUB_RAW_MIRRORS)
  /\ mirrorFetch' = tryMirror(mirrorFetch)
  /\ UNCHANGED <<parserVars, pathCall, snapCall, ringCall, assist, control, toolCall,
                 landmarkLayer, mapContainer, measuring, beforeUndo>>

\* after the loop: the 'error' event, then throw
AllMirrorsFailed ==
  /\ mirrorFetch.pc = "loop"
  /\ mirrorFetch.i > Len(GITHUB_RAW_MIRRORS)
  /\ mirrorFetch' = [mirrorFetch EXCEPT !.pc = "thrown",
                                        !.events = onProgress(mirrorFetch, @, "error")]
  /\ UNCHANGED <<parserVars, pathCall, snapCall, ringCall, assist, control, toolCall,
                 landmarkLayer, mapContainer, measuring, beforeUndo>>

FetchNext == BeginFetch \/ TryMirror \/ AllMirrorsFailed

FetchSpec == FetchInit /\ [][FetchNext]_vars

(***************************************************************************)
(* LandmarkLayer (src/unnamed/part_002) and the data load of MapContainer  *)
(* (src/unnamed/part_003)                                                  *)
(*                                                                         *)
(* A change of the world is one step: the render with the new id, the      *)
(* cleanup of the previous run of the effect and the new run up to its     *)
(* first await.  Every run of an effect is kept with its own position, so  *)
(* the answers of overlapping runs can arrive in any order.  The data a    *)
(* fetch for world w resolves with is written dataOf(kind, w); a fetch may *)
(* also reject.                                                            *)
(***************************************************************************)
WORLDS == <<"zth", "eden", "naraku", "houtu">>

\* the worlds selected in the model: two with an RMP file and one without
WorldChoices == {WORLDS[1], WORLDS[2], WORLDS[4]}

RMP_DATA_FILES == [w \in {"zth", "houtu"} |-> "/data/rmp_" \o w \o ".json"]

\* the parsed answer of a fetch of the given kind for world w
dataOf(kind, w) == <<[kind |-> kind, world |-> w]>>

\* the number of world changes followed
MaxLoads == 3

\* LandmarkLayer as first rendered for world w: useState([]) and the first
\* run of the loading effect, waiting for its fetch
LandmarkLayerFor(w) ==
  [mounted |-> TRUE, worldId |-> w, landmarks |-> <<>>,
   loads |-> <<[worldId |-> w, cancelled |-> FALSE, pc |-> "awaiting"]>>]

\* the continuation of loadData after the await, applying the answer even
\* when the run was cancelled (a variant)
afterFetch_ignoresCancelled(layer, k) ==
  [layer EXCEPT !.landmarks = dataOf("landmark", layer.loads[k].worldId),
                !.loads[k].pc = "applied"]

\* the continuation of loadData after the await:
\* const parsed = parseLandmarkData(rawData); if (!cancelled) setLandmarks(parsed)
afterFetch(layer, k) ==
  IF layer.loads[k].cancelled
    THEN [layer EXCEPT !.loads[k].pc = "ignored"]
    ELSE [layer EXCEPT !.landmarks = dataOf("landmark", layer.loads[k].worldId),
                       !.loads[k].pc = "applied"]

\* the cleanup of the effect: cancelled = true in the closure of the last run
cleanup(loads) ==
  [k \in 1..Len(loads) |->
     IF k = Len(loads) THEN [loads[k] EXCEPT !.cancelled = TRUE] ELSE loads[k]]

LandmarkInit ==
  /\ NoDocument
  /\ pathCall = NoPathCall
  /\ snapCall = NoSnapCall
  /\ ringCall = NoRingCall
  /\ assist = Unmounted
  /\ control = Unmounted
  /\ toolCall = NoToolCall
  /\ mirrorFetch = NoFetch
  /\ landmarkLayer \in {LandmarkLayerFor(w) : w \in WorldChoices}
  /\ mapContainer = Unmounted
  /\ measuring = Unmounted
  /\ beforeUndo = <<>>

\* the worldId prop changes: cleanup of the previous run, then loadData of
\* the new run up to the await (setLandmarks([]), the fetch is sent)
LandmarkWorldChanges ==
  /\ landmarkLayer.mounted
  /\ Len(landmarkLayer.loads) <= MaxLoads
  /\ \E w \in WorldChoices \ {landmarkLayer.worldId} :
       landmarkLayer' =
         [landmarkLayer EXCEPT
            !.worldId = w,
            !.landmarks = <<>>,
            !.loads = Append(cleanup(@),
                             [worldId |-> w, cancelled |-> FALSE, pc |-> "awaiting"])]
  /\ UNCHANGED <<parserVars, pathCall, snapCall, ringCall, assist, control, toolCall,
                 mirrorFetch, mapContainer, measuring, beforeUndo>>

\* the fetch of one run resolves
LandmarkFetchResolves ==
  /\ landmarkLayer.mounted
  /\ \E k \in 1..Len(landmarkLayer.loads) :
       /\ landmarkLayer.loads[k].pc = "awaiting"
       /\ landmarkLayer' = afterFetch(landmarkLayer, k)
  /\ UNCHANGED <<parserVars, pathCall, snapCall, ringCall, assist, control, toolCall,
                 mirrorFetch, mapContainer, measuring, beforeUndo>>

\* the fetch of one run rejects: loadData ends without setting the state
LandmarkFetchRejects ==
  /\ landmarkLayer.mounted
  /\ \E k \in 1..Len(landmarkLayer.loads) :
       /\ landmarkLayer.loads[k].pc = "awaiting"
       /\ landmarkLayer' = [landmarkLayer EXCEPT !.loads[k].pc = "failed"]
  /\ UNCHANGED <<parserVars, pathCall, snapCall, ringCall, assist, control, toolCall,
                 mirrorFetch, mapContainer, measuring, beforeUndo>>

LandmarkNext == LandmarkWorldChanges \/ LandmarkFetchResolves \/ LandmarkFetchRejects

LandmarkSpec == LandmarkInit /\ [][LandmarkNext]_vars

\* MapContainer as first rendered with world w (the saved world or 'zth'):
\* empty data, the loading store not initialized, and the first run of
\* loadSearchData waiting for fetchRailwayData
MapContainerFor(w) ==
  [mounted |-> TRUE, currentWorld |-> w, initialized |-> FALSE,
   lines |-> <<>>, stations |-> <<>>, landmarks |-> <<>>, players |-> <<>>,
   loads |-> <<[world |-> w, isFirstLoad |-> TRUE, pc |-> "railway"]>>]

\* a new run of the effect of loadSearchData, up to its first await
startLoad(map, w) ==
  Append(map.loads, [world |-> w, isFirstLoad |-> ~map.initialized, pc |-> "railway"])

\* "合并线路和站点" up to the await of fetchLandmarkData: setLines, setStations
mergeAndSet(map, k, rmpKinds) ==
  LET w == map.loads[k].world
  IN [map EXCEPT
        !.lines = dataOf("riaLines", w)
                    \o (IF "lines" \in rmpKinds THEN dataOf("rmpLines", w) ELSE <<>>),
        !.stations = dataOf("riaStations", w)
                    \o (IF "stations" \in rmpKinds THEN dataOf("rmpStations", w) ELSE <<>>),
        !.loads[k].pc = "landmark"]

\* the continuation of loadSearchData after fetchRailwayData resolved
afterRailway(map, k) ==
  IF map.loads[k].world \in DOMAIN RMP_DATA_FILES
    THEN [map EXCEPT !.loads[k].pc = "rmp"]
    ELSE mergeAndSet(map, k, {})

\* the continuation after fetchRMPData resolved (parsed) or rejected (caught)
afterRMP(map, k, resolved) ==
  mergeAndSet(map, k, IF resolved THEN {"lines", "stations"} ELSE {})

\* the continuation after fetchLandmarkData resolved: setLandmarks
afterLandmark(map, k) ==
  [map EXCEPT !.landmarks = dataOf("landmark", map.loads[k].world),
              !.loads[k].pc = "players"]

\* the continuation after fetchPlayers resolved: setPlayers, and on a first
\* load the timer of finishLoading
afterPlayers(map, k) ==
  [map EXCEPT !.players = dataOf("players", map.loads[k].world),
              !.loads[k].pc = IF map.loads[k].isFirstLoad THEN "closing" ELSE "done"]

MapInit ==
  /\ NoDocument
  /\ pathCall = NoPathCall
  /\ snapCall = NoSnapCall
  /\ ringCall = NoRingCall
  /\ assist = Unmounted
  /\ control = Unmounted
  /\ toolCall = NoToolCall
  /\ mirrorFetch = NoFetch
  /\ landmarkLayer = Unmounted
  /\ mapContainer \in {MapContainerFor(w) : w \in WorldChoices}
  /\ measuring = Unmounted
  /\ beforeUndo = <<>>

\* handleWorldChange(worldId): setCurrentWorld, then the effect runs again
\* because currentWorld changed
handleWorldChange ==
  /\ mapContainer.mounted
  /\ Len(mapContainer.loads) <= MaxLoads
  /\ \E w \in WorldChoices \ {mapContainer.currentWorld} :
       mapContainer' = [mapContainer EXCEPT !.currentWorld = w,
                                            !.loads = startLoad(mapContainer, w)]
  /\ UNCHANGED <<parserVars, pathCall, snapCall, ringCall, assist, control, toolCall,
                 mirrorFetch, landmarkLayer, measuring, beforeUndo>>

\* the pending fetch of one run resolves and the run goes on to its next await
LoadStepResolves ==
  /\ mapContainer.mounted
  /\ \E k \in 1..Len(mapContainer.loads) :
       LET at == mapContainer.loads[k].pc
       IN /\ at \in {"railway", "rmp", "landmark", "players"}
          /\ mapContainer' =
               IF at = "railway" THEN afterRailway(mapContainer, k)
               ELSE IF at = "rmp" THEN afterRMP(mapContainer, k, TRUE)
               ELSE IF at = "landmark" THEN afterLandmark(mapContainer, k)
               ELSE afterPlayers(mapContainer, k)
  /\ UNCHANGED <<parserVars, pathCall, snapCall, ringCall, assist, control, toolCall,
                 mirrorFetch, landmarkLayer, measuring, beforeUndo>>

\* fetchRMPData of one run rejects: the catch logs it and the run goes on
RMPFetchRejects ==
  /\ mapContainer.mounted
  /\ \E k \in 1..Len(mapContainer.loads) :
       /\ mapContainer.loads[k].pc = "rmp"
       /\ mapContainer' = afterRMP(mapContainer, k, FALSE)
  /\ UNCHANGED <<parserVars, pathCall, snapCall, ringCall, assist, control, toolCall,
                 mirrorFetch, landmarkLayer, measuring, beforeUndo>>

\* the timer of a first load fires: finishLoading() sets initialized, and
\* when that changes it the effect runs again for the current world
FinishLoadingFires ==
  /\ mapContainer.mounted
  /\ Len(mapContainer.loads) <= MaxLoads
  /\ \E k \in 1..Len(mapContainer.loads) :
       /\ mapContainer.loads[k].pc = "closing"
       /\ LET closed == [mapContainer EXCEPT !.loads[k].pc = "done", !.initialized = TRUE]
          IN mapContainer' =
               IF mapContainer.initialized THEN closed
               ELSE [closed EXCEPT !.loads = startLoad(closed, closed.currentWorld)]
  /\ UNCHANGED <<parserVars, pathCall, snapCall, ringCall, assist, control, toolCall,
                 mirrorFetch, landmarkLayer, measuring, beforeUndo>>

MapNext == handleWorldChange \/ LoadStepResolves \/ RMPFetchRejects \/ FinishLoadingFires

MapSpec == MapInit /\ [][MapNext]_vars

(***************************************************************************)
(* MeasuringModule (src/src/components/Mapping/MeasuringModule.tsx)        *)
(*                                                                         *)
(* The component's drawing state, its layer list and the fixed container   *)
(* (fixedRootRef), which is the sequence of the leaflet groups it holds in *)
(* the order they were added.  A leaflet group is a number; L.layerGroup() *)
(* yields a number no layer and no container refers to.  A handler is      *)
(* enabled when the control it is bound to is rendered and not disabled.   *)
(* Colours, sub types and feature information are left out, so the extra   *)
(* information is always empty and requestSwitchWithExtraWarn runs its     *)
(* action at once.                                                         *)
(***************************************************************************)
\* the number of layers created by finishing or importing
MaxLayers == 2

\* the number of points held by the draft and the redo stack together
MaxPoints == 2

\* the place clicked on the map; imported layers have another point as well
DrawClickPoints == { [x |-> 0, z |-> 0] }

PanelModes == {"point", "polyline"}

\* the component after its first render, the map being ready
MeasuringInitial ==
  [mounted |-> TRUE, measuringActive |-> FALSE, importPanelOpen |-> FALSE,
   drawing |-> FALSE, drawMode |-> "none", tempPoints |-> <<>>, redoStack |-> <<>>,
   layers |-> <<>>, editingLayerId |-> nullId, editingBackupCoords |-> <<>>,
   nextLayerId |-> 1, fixedRoot |-> <<>>]

groupsOf(layerList) == { layerList[i].leafletGroup : i \in 1..Len(layerList) }

\* L.layerGroup(): a group nothing refers to yet
newLeafletGroup(m, taken) ==
  CHOOSE g \in 1..(Len(m.layers) + Len(m.fixedRoot) + Cardinality(taken) + 1) :
    /\ g \notin groupsOf(m.layers) \cup taken
    /\ \A i \in 1..Len(m.fixedRoot) : m.fixedRoot[i] # g

layerIndex(layerList, id) ==
  IF \E i \in 1..Len(layerList) : layerList[i].id = id
    THEN CHOOSE i \in 1..Len(layerList) :
           layerList[i].id = id /\ \A j \in 1..(i - 1) : layerList[j].id # id
    ELSE 0

shownInFixedRoot(l, editingId) ==
  l.visible /\ ~(editingId # nullId /\ l.id = editingId)

RECURSIVE groupsShown(_, _)
groupsShown(layerList, editingId) ==
  IF layerList = <<>> THEN <<>>
  ELSE (IF shownInFixedRoot(Head(layerList), editingId)
          THEN <<Head(layerList).leafletGroup>> ELSE <<>>)
       \o groupsShown(Tail(layerList), editingId)

\* syncFixedRoot: root.clearLayers(), then addLayer for every visible layer
\* that is not the edited one, in list order
syncFixedRoot(nextLayers, editingId) == groupsShown(nextLayers, editingId)

\* fixedRootRef.current?.removeLayer(group)
removeLayer(root, group) == SelectSeq(root, LAMBDA g : g # group)

\* the part every way of leaving the drawing state has in common
draftReset(m) ==
  [m EXCEPT !.drawing = FALSE, !.drawMode = "none", !.tempPoints = <<>>,
            !.redoStack = <<>>, !.editingLayerId = nullId]

clearAllLayers(m) ==
  [draftReset(m) EXCEPT !.fixedRoot = <<>>, !.layers = <<>>]

toggleMeasuringActiveFromMenu(m) ==
  IF ~m.measuringActive
    THEN [clearAllLayers(m) EXCEPT !.measuringActive = TRUE]
    ELSE [draftReset(m) EXCEPT !.measuringActive = FALSE]

closeMeasuringUI(m) ==
  [draftReset(m) EXCEPT !.measuringActive = FALSE, !.importPanelOpen = FALSE]

\* the effect of a new closeSignal
closeSignalEffect(m) ==
  [clearAllLayers(m) EXCEPT !.measuringActive = FALSE, !.importPanelOpen = FALSE]

\* the onClick of a mode button; accepted is the answer to confirm()
switchMode(m, mode, accepted) ==
  IF Len(m.tempPoints) > 0 /\ m.drawMode # mode
    THEN IF ~accepted THEN m
         ELSE [m EXCEPT !.tempPoints = <<>>, !.redoStack = <<>>,
                        !.drawMode = mode, !.drawing = TRUE]
    ELSE [m EXCEPT !.drawMode = mode, !.drawing = TRUE]

onMapDrawClick(m, newPoint) ==
  [m EXCEPT !.tempPoints = Append(@, newPoint)]

handleUndo(m) ==
  IF Len(m.tempPoints) = 0 THEN m
  ELSE [m EXCEPT !.redoStack = Append(@, m.tempPoints[Len(m.tempPoints)]),
                 !.tempPoints = SubSeq(@, 1, Len(@) - 1)]

handleRedo(m) ==
  IF Len(m.redoStack) = 0 THEN m
  ELSE [m EXCEPT !.redoStack = SubSeq(@, 1, Len(@) - 1),
                 !.tempPoints = Append(@, m.redoStack[Len(m.redoStack)])]

finishLayer(m) ==
  LET finalCoords ==
        IF Len(m.tempPoints) > 0 THEN m.tempPoints
        ELSE IF m.editingLayerId # nullId THEN m.editingBackupCoords ELSE <<>>
      editing == m.editingLayerId # nullId
      layerObj ==
        [id |-> IF editing THEN m.editingLayerId ELSE m.nextLayerId,
         mode |-> m.drawMode, coords |-> finalCoords, visible |-> TRUE,
         leafletGroup |-> newLeafletGroup(m, {})]
      next ==
        IF editing
          THEN [i \in 1..Len(m.layers) |->
                  IF m.layers[i].id = m.editingLayerId THEN layerObj ELSE m.layers[i]]
          ELSE Append(m.layers, layerObj)
  IN IF m.drawMode = "none" \/ Len(finalCoords) = 0 THEN m
     ELSE [draftReset(m) EXCEPT
             !.layers = next,
             !.fixedRoot = syncFixedRoot(next, nullId),
             !.nextLayerId = IF editing THEN @ ELSE @ + 1,
             !.editingBackupCoords = <<>>]

toggleLayerVisible(m, id) ==
  LET next == [i \in 1..Len(m.layers) |->
                 IF m.layers[i].id = id
                   THEN [m.layers[i] EXCEPT !.visible = ~@] ELSE m.layers[i]]
  IN [m EXCEPT !.layers = next, !.fixedRoot = syncFixedRoot(next, m.editingLayerId)]

swapped(layerList, i, j) ==
  [k \in 1..Len(layerList) |->
     IF k = i THEN layerList[j] ELSE IF k = j THEN layerList[i] ELSE layerList[k]]

moveLayerUp(m, id) ==
  LET idx == layerIndex(m.layers, id)
  IN IF idx <= 1 THEN m
     ELSE [m EXCEPT !.layers = swapped(@, idx - 1, idx),
                    !.fixedRoot = syncFixedRoot(swapped(m.layers, idx - 1, idx),
                                                m.editingLayerId)]

moveLayerDown(m, id) ==
  LET idx == layerIndex(m.layers, id)
  IN IF idx < 1 \/ idx >= Len(m.layers) THEN m
     ELSE [m EXCEPT !.layers = swapped(@, idx, idx + 1),
                    !.fixedRoot = syncFixedRoot(swapped(m.layers, idx, idx + 1),
                                                m.editingLayerId)]

editLayer(m, id) ==
  LET idx == layerIndex(m.layers, id)
  IN IF idx = 0 THEN m
     ELSE [m EXCEPT !.fixedRoot = removeLayer(@, m.layers[idx].leafletGroup),
                    !.editingBackupCoords = m.layers[idx].coords,
                    !.editingLayerId = id,
                    !.drawing = TRUE,
                    !.drawMode = m.layers[idx].mode,
                    !.tempPoints = m.layers[idx].coords]

deleteLayer(m, id) ==
  LET next == SelectSeq(m.layers, LAMBDA l : l.id # id)
      cleared == IF m.editingLayerId = id
                   THEN [m EXCEPT !.tempPoints = <<>>, !.redoStack = <<>>] ELSE m
  IN [cleared EXCEPT
        !.layers = next,
        !.fixedRoot = syncFixedRoot(next, IF m.editingLayerId = id THEN nullId
                                          ELSE m.editingLayerId)]

\* what the import text can describe: one point, one line, or a JSON array
\* of two items
ImportTexts ==
  { << [mode |-> "point", coords |-> <<[x |-> 0, z |-> 0]>>] >>,
    << [mode |-> "polyline", coords |-> <<[x |-> 0, z |-> 0], [x |-> 10, z |-> 0]>>] >>,
    << [mode |-> "point", coords |-> <<[x |-> 10, z |-> 0]>>],
       [mode |-> "point", coords |-> <<[x |-> 0, z |-> 0]>>] >> }

RECURSIVE importedLayers(_, _, _, _)
importedLayers(m, items, id, taken) ==
  IF items = <<>> THEN <<>>
  ELSE LET group == newLeafletGroup(m, taken)
       IN << [id |-> id, mode |-> Head(items).mode, coords |-> Head(items).coords,
              visible |-> TRUE, leafletGroup |-> group] >>
          \o importedLayers(m, Tail(items), id + 1, taken \cup {group})

handleImport(m, items) ==
  LET next == m.layers \o importedLayers(m, items, m.nextLayerId, {})
  IN [m EXCEPT !.layers = next,
               !.fixedRoot = syncFixedRoot(next, m.editingLayerId),
               !.nextLayerId = @ + Len(items),
               !.importPanelOpen = FALSE]

MeasuringInit ==
  /\ NoDocument
  /\ pathCall = NoPathCall
  /\ snapCall = NoSnapCall
  /\ ringCall = NoRingCall
  /\ assist = Unmounted
  /\ control = Unmounted
  /\ toolCall = NoToolCall
  /\ mirrorFetch = NoFetch
  /\ landmarkLayer = Unmounted
  /\ mapContainer = Unmounted
  /\ measuring = MeasuringInitial
  /\ beforeUndo = <<>>

\* a handler other than undo and redo took the component to `next`: the
\* history is kept as long as the redo stack is
MeasuringBecomes(next) ==
  /\ measuring' = next
  /\ beforeUndo' = IF next.redoStack = <<>> THEN <<>> ELSE beforeUndo
  /\ UNCHANGED <<parserVars, pathCall, snapCall, ringCall, assist, control, toolCall,
                 mirrorFetch, landmarkLayer, mapContainer>>

layerIds(m) == { m.layers[i].id : i \in 1..Len(m.layers) }

\* the layers listed by the layer controller: all but the edited one
listedLayerIds(m) == layerIds(m) \ {m.editingLayerId}

busy(m) == (m.drawing /\ m.drawMode # "none") \/ m.editingLayerId # nullId

ToggleMeasuringActive ==
  /\ measuring.mounted
  /\ MeasuringBecomes(toggleMeasuringActiveFromMenu(measuring))

CloseMeasuringUI ==
  /\ measuring.mounted /\ measuring.measuringActive
  /\ MeasuringBecomes(closeMeasuringUI(measuring))

ClearAllLayers ==
  /\ measuring.mounted
  /\ MeasuringBecomes(clearAllLayers(measuring))

CloseSignalChanges ==
  /\ measuring.mounted
  /\ MeasuringBecomes(closeSignalEffect(measuring))

SwitchMode ==
  /\ measuring.mounted /\ measuring.measuringActive
  /\ \E mode \in PanelModes, accepted \in BOOLEAN :
       MeasuringBecomes(switchMode(measuring, mode, accepted))

\* a click on the map while the click listener of the drawing mode is bound
MapDrawClick ==
  /\ measuring.mounted
  /\ measuring.drawing /\ measuring.drawMode # "none"
  /\ Len(measuring.tempPoints) + Len(measuring.redoStack) < MaxPoints
  /\ \E p \in DrawClickPoints : MeasuringBecomes(onMapDrawClick(measuring, p))

Undo ==
  /\ measuring.mounted /\ measuring.measuringActive /\ measuring.drawMode # "none"
  /\ measuring' = handleUndo(measuring)
  /\ beforeUndo' = IF Len(measuring.tempPoints) = 0 THEN beforeUndo
                   ELSE Append(beforeUndo, measuring.tempPoints)
  /\ UNCHANGED <<parserVars, pathCall, snapCall, ringCall, assist, control, toolCall,
                 mirrorFetch, landmarkLayer, mapContainer>>

Redo ==
  /\ measuring.mounted /\ measuring.measuringActive /\ measuring.drawMode # "none"
  /\ measuring' = handleRedo(measuring)
  /\ beforeUndo' = IF Len(measuring.redoStack) = 0 THEN beforeUndo
                   ELSE SubSeq(beforeUndo, 1, Len(beforeUndo) - 1)
  /\ UNCHANGED <<parserVars, pathCall, snapCall, ringCall, assist, control, toolCall,
                 mirrorFetch, landmarkLayer, mapContainer>>

FinishLayer ==
  /\ measuring.mounted /\ measuring.measuringActive /\ measuring.drawMode # "none"
  /\ measuring.editingLayerId = nullId => measuring.nextLayerId <= MaxLayers
  /\ MeasuringBecomes(finishLayer(measuring))

EditLayer ==
  /\ measuring.mounted /\ measuring.measuringActive /\ ~busy(measuring)
  /\ \E id \in listedLayerIds(measuring) : MeasuringBecomes(editLayer(measuring, id))

ToggleLayerVisible ==
  /\ measuring.mounted /\ measuring.measuringActive
  /\ \E id \in listedLayerIds(measuring) :
       MeasuringBecomes(toggleLayerVisible(measuring, id))

MoveLayer ==
  /\ measuring.mounted /\ measuring.measuringActive
  /\ \E id \in listedLayerIds(measuring) :
       \/ MeasuringBecomes(moveLayerUp(measuring, id))
       \/ MeasuringBecomes(moveLayerDown(measuring, id))

DeleteLayer ==
  /\ measuring.mounted /\ measuring.measuringActive
  /\ \E id \in listedLayerIds(measuring) : MeasuringBecomes(deleteLayer(measuring, id))

OpenImportPanel ==
  /\ measuring.mounted /\ measuring.measuringActive
  /\ MeasuringBecomes([measuring EXCEPT !.importPanelOpen = TRUE])

CloseImportPanel ==
  /\ measuring.mounted /\ measuring.importPanelOpen
  /\ MeasuringBecomes([measuring EXCEPT !.importPanelOpen = FALSE])

Import ==
  /\ measuring.mounted /\ measuring.importPanelOpen
  /\ \E items \in ImportTexts :
       /\ measuring.nextLayerId + Len(items) - 1 <= MaxLayers
       /\ MeasuringBecomes(handleImport(measuring, items))

MeasuringNext ==
  \/ ToggleMeasuringActive \/ CloseMeasuringUI \/ ClearAllLayers \/ CloseSignalChanges
  \/ SwitchMode \/ MapDrawClick \/ Undo \/ Redo \/ FinishLayer
  \/ EditLayer \/ ToggleLayerVisible \/ MoveLayer \/ DeleteLayer
  \/ OpenImportPanel \/ CloseImportPanel \/ Import

MeasuringSpec == MeasuringInit /\ [][MeasuringNext]_vars

(***************************************************************************)
(* Properties                                                              *)
(***************************************************************************)
Range(s) == {s[i] : i \in 1..Len(s)}

lineStationRecords(res) ==
  UNION {Range(res.lines[l].stations) : l \in 1..Len(res.lines)}

stationRecords(res) == lineStationRecords(res) \cup Range(res.stations)

\* the emitted lines in which a station name occurs
linesWithName(res, name) ==
  {l \in 1..Len(res.lines) : \E s \in Range(res.lines[l].stations) : s.name = name}

\* the color group whose loop iteration has just run (none outside the loop)
groupsDone ==
  IF pc = "loop" /\ groupIdx > 1 THEN <<linesByColor[groupIdx - 1]>> ELSE <<>>

\* C1: every returned line has one edge path per consecutive station pair,
\* edgePaths.length = stations.length - 1.
C1_EdgePathsAligned ==
  Returned =>
    \A l \in 1..Len(result.lines) :
      Len(result.lines[l].edgePaths) = Len(result.lines[l].stations) - 1

\* C2: a station name occurring in k emitted lines has isTransfer = (k > 1)
\* in the global entry and in every per-line copy.
C2_TransferIffManyLines ==
  Returned =>
    \A s \in stationRecords(result) :
      LET k == Cardinality(linesWithName(result, s.name))
      IN  k >= 1 => (s.isTransfer <=> (k > 1))

\* C3: station records of the same name agree on the line-name set and on
\* the transfer flag, across lines and the global list.
C3_SameNameAgree ==
  Returned =>
    \A s \in stationRecords(result) : \A t \in stationRecords(result) :
      s.name = t.name =>
        /\ Range(s.lines) = Range(t.lines)
        /\ s.isTransfer = t.isTransfer

C3_Witness ==
  /\ Returned
  /\ \E s \in lineStationRecords(result) :
       /\ Cardinality(linesWithName(result, s.name)) = 2
       /\ Len(s.lines) = 2
       /\ s.isTransfer

\* C4: in every color group the i-th ordered edge joins the i-th and the
\* (i+1)-th ordered node.
C4_EdgeJoinsConsecutiveNodes ==
  \A g \in 1..Len(groupsDone) :
    LET tr == getOrderedStationsWithEdges(groupsDone[g].edges)
    IN  \A i \in 1..Len(tr.orderedEdges) :
          LET e == tr.orderedEdges[i]
              a == tr.orderedNodes[i]
              b == tr.orderedNodes[i + 1]
          IN  \/ e.source = a /\ e.target = b
              \/ e.source = b /\ e.target = a

visibleEdgesOnly(es) == SelectSeq(es, LAMBDA e : e.visible)

\* C6: the result is the result on the graph without its invisible edges.
C6_InvisibleEdgesIgnored ==
  Returned => result = parseRMPData(nodes, visibleEdgesOnly(edges), worldId)

C6_Witness ==
  /\ Returned
  /\ Len(result.lines) >= 1
  /\ \E i \in 1..Len(edges) :
       /\ ~edges[i].visible
       /\ \E l \in 1..Len(result.lines) : result.lines[l].color = getEdgeColor(edges[i])

\* the nodes have pairwise distinct world coordinates
distinctCoords ==
  \A i \in 1..Len(nodes) : \A j \in 1..Len(nodes) :
    i # j => rmpToGameCoord(nodes[i].x, nodes[i].y, coordConfigOf(worldId))
               # rmpToGameCoord(nodes[j].x, nodes[j].y, coordConfigOf(worldId))

\* C7: a node that is not of a station type, or has no station name, is in no
\* station list (when the nodes have pairwise distinct world coordinates, a
\* station record is recognised by its coordinate).
C7_OnlyNamedStationNodes ==
  (Returned /\ distinctCoords) =>
    \A i \in 1..Len(nodes) :
      (~isStationNode(nodes[i]) \/ getStationName(nodes[i]) = NULL) =>
        \A s \in stationRecords(result) :
          s.coord # rmpToGameCoord(nodes[i].x, nodes[i].y, coordConfigOf(worldId))

C7_Witness ==
  /\ Returned
  /\ \E g \in 1..Len(linesByColor) :
       LET tr == getOrderedStationsWithEdges(linesByColor[g].edges)
       IN  /\ \E l \in 1..Len(result.lines) : result.lines[l].color = linesByColor[g].color
           /\ \E i \in 1..Len(nodes) :
                /\ seqHas(tr.orderedNodes, nodes[i].key)
                /\ ~isStationNode(nodes[i])
                /\ getStationName(nodes[i]) # NULL

\* the nodes joined to a start node by the edges of a group
RECURSIVE reachableFrom(_, _)
reachableFrom(S, es) ==
  LET S1 == S \cup {es[i].target : i \in {j \in 1..Len(es) : es[j].source \in S}}
              \cup {es[i].source : i \in {j \in 1..Len(es) : es[j].target \in S}}
  IN  IF S1 = S THEN S ELSE reachableFrom(S1, es)

\* C8: the traversal of every color group ends, and its ordered node list holds
\* each node reachable from the start node exactly once.
C8_EachReachableNodeOnce ==
  \A g \in 1..Len(groupsDone) :
    LET es == groupsDone[g].edges
        tr == getOrderedStationsWithEdges(es)
    IN  /\ Len(tr.orderedNodes) >= 1
        /\ Range(tr.orderedNodes) = reachableFrom({tr.orderedNodes[1]}, es)
        /\ Cardinality(Range(tr.orderedNodes)) = Len(tr.orderedNodes)

\* a closed loop of three nodes has been traversed
C8_Witness ==
  \E g \in 1..Len(groupsDone) :
    LET es == groupsDone[g].edges
        tr == getOrderedStationsWithEdges(es)
    IN  /\ Len(tr.orderedNodes) = 3
        /\ Len(es) = 3
        /\ \A i \in 1..Len(es) : \A j \in 1..Len(es) :
             i # j => {es[i].source, es[i].target} # {es[j].source, es[j].target}

endpointsOfGroup(es) == {es[i].source : i \in 1..Len(es)} \cup {es[i].target : i \in 1..Len(es)}

neighbourSet(es, k) ==
  {es[i].target : i \in {j \in 1..Len(es) : es[j].source = k}}
    \cup {es[i].source : i \in {j \in 1..Len(es) : es[j].target = k}}

\* position at which a node key first occurs in source1, target1, source2, ...
firstSeen(es, k) ==
  LET occ == {2 * i - 1 : i \in {j \in 1..Len(es) : es[j].source = k}}
               \cup {2 * i : i \in {j \in 1..Len(es) : es[j].target = k}}
  IN  CHOOSE p \in occ : \A q \in occ : p <= q

expectedStart(es) ==
  LET ends == {k \in endpointsOfGroup(es) : Cardinality(neighbourSet(es, k)) = 1}
  IN  IF ends = {} THEN es[1].source
      ELSE CHOOSE k \in ends : \A m \in ends : firstSeen(es, k) <= firstSeen(es, m)

\* C9: the traversal starts at the first-inserted node with exactly one
\* neighbour, or at the source of the first edge when there is none.
C9_TraversalStart ==
  \A g \in 1..Len(groupsDone) :
    LET es == groupsDone[g].edges
    IN  getOrderedStationsWithEdges(es).orderedNodes[1] = expectedStart(es)

\* a traversal has started at a one-neighbour node that is not the first edge's source
C9_Witness ==
  \E g \in 1..Len(groupsDone) :
    LET es == groupsDone[g].edges
        start == getOrderedStationsWithEdges(es).orderedNodes[1]
    IN  /\ start # es[1].source
        /\ Cardinality(neighbourSet(es, start)) = 1

\* the group is a simple path of named station nodes joined by simple edges of offset 0
isSimpleStationPath(es, nodeMap) ==
  LET V == endpointsOfGroup(es)
  IN  /\ \A k \in V : /\ k \in DOMAIN nodeMap
                      /\ isStationNode(nodeMap[k])
                      /\ getStationName(nodeMap[k]) \notin {NULL, ""}
      /\ \A i \in 1..Len(es) : /\ es[i].type = "simple"
                               /\ Len(es[i].simple) > 0
                               /\ es[i].simple[1].offset = 0
                               /\ es[i].source # es[i].target
      /\ Cardinality({{es[i].source, es[i].target} : i \in 1..Len(es)}) = Cardinality(V) - 1
      /\ \A k \in V : Cardinality(neighbourSet(es, k)) <= 2
      /\ reachableFrom({es[1].source}, es) = V

\* the nodes of a path in path order, walking away from prev
RECURSIVE pathWalk(_, _, _, _)
pathWalk(es, k, prev, acc) ==
  LET next == neighbourSet(es, k) \ {prev}
  IN  IF next = {} THEN Append(acc, k)
      ELSE pathWalk(es, CHOOSE n \in next : TRUE, k, Append(acc, k))

worldDistance(a, b) == Hyp(Sub(b.x, a.x), Sub(b.z, a.z))

\* C10: a color group that is a simple path of n named stations joined by simple
\* edges of offset 0 gives one line: the n stations in path order from an
\* endpoint, and n-1 edge paths of one straight segment each, between the world
\* coordinates of consecutive stations, of their world-space distance.
C10_SimplePathLine ==
  Returned =>
    \A g \in 1..Len(linesByColor) :
      LET es == linesByColor[g].edges
          nodeMap == nodeMapOf(nodes)
          world(k) == rmpToGameCoord(nodeMap[k].x, nodeMap[k].y, coordConfigOf(worldId))
          ls == {l \in 1..Len(result.lines) : result.lines[l].color = linesByColor[g].color}
      IN  isSimpleStationPath(es, nodeMap) =>
            /\ Cardinality(ls) = 1
            /\ \E e \in {k \in endpointsOfGroup(es) : Cardinality(neighbourSet(es, k)) = 1} :
                 LET w == pathWalk(es, e, NULL, <<>>)
                     L == result.lines[CHOOSE l \in ls : TRUE]
                 IN  /\ Len(L.stations) = Len(w)
                     /\ Len(L.edgePaths) = Len(w) - 1
                     /\ \A i \in 1..Len(w) :
                          /\ L.stations[i].name = getStationName(nodeMap[w[i]])
                          /\ L.stations[i].coord = world(w[i])
                     /\ \A i \in 1..(Len(w) - 1) :
                          L.edgePaths[i] =
                            [segments |-> << [type |-> "line",
                                              points |-> <<world(w[i]), world(w[i + 1])>>] >>,
                             length |-> worldDistance(world(w[i]), world(w[i + 1]))]

\* a path of three stations, one leg of it oblique, has been parsed
C10_Witness ==
  /\ Returned
  /\ \E g \in 1..Len(linesByColor) :
       LET es == linesByColor[g].edges
       IN  /\ isSimpleStationPath(es, nodeMapOf(nodes))
           /\ Cardinality(endpointsOfGroup(es)) = 3
           /\ \E l \in 1..Len(result.lines) :
                \E i \in 1..Len(result.lines[l].edgePaths) :
                  result.lines[l].edgePaths[i].length = 5 * coordConfigOf(worldId).multiplier

\* C11: in every returned line the station at list position k (from 1) has
\* stationCode k.
C11_StationCodesConsecutive ==
  Returned =>
    \A l \in 1..Len(result.lines) :
      \A k \in 1..Len(result.lines[l].stations) :
        result.lines[l].stations[k].stationCode = k

\* the named station nodes met by the traversal of a group
namedStationKeys(es, nodeMap) ==
  {k \in Range(getOrderedStationsWithEdges(es).orderedNodes) :
     /\ k \in DOMAIN nodeMap
     /\ isStationNode(nodeMap[k])
     /\ getStationName(nodeMap[k]) \notin {NULL, ""}}

stationTypeKeys(es, nodeMap) ==
  {k \in Range(getOrderedStationsWithEdges(es).orderedNodes) :
     k \in DOMAIN nodeMap /\ isStationNode(nodeMap[k])}

\* C12: every returned line has at least 2 stations, and a color group with
\* fewer than 2 named station nodes gives no line.
C12_SmallGroupsDropped ==
  Returned =>
    /\ \A l \in 1..Len(result.lines) : Len(result.lines[l].stations) >= 2
    /\ \A g \in 1..Len(linesByColor) :
         Cardinality(namedStationKeys(linesByColor[g].edges, nodeMapOf(nodes))) < 2 =>
           \A l \in 1..Len(result.lines) : result.lines[l].color # linesByColor[g].color

\* a group of two station-type nodes, one of them unnamed, was dropped
C12_Witness ==
  /\ Returned
  /\ \E g \in 1..Len(linesByColor) :
       /\ Cardinality(stationTypeKeys(linesByColor[g].edges, nodeMapOf(nodes))) >= 2
       /\ Cardinality(namedStationKeys(linesByColor[g].edges, nodeMapOf(nodes))) = 1
       /\ \A l \in 1..Len(result.lines) : result.lines[l].color # linesByColor[g].color

\* C13: the line at position l of the result has id RMP-l.
C13_LineIdsConsecutive ==
  Returned =>
    \A l \in 1..Len(result.lines) : result.lines[l].lineId = "RMP-" \o ToString(l)

\* a group with two station-type nodes was dropped before a line was emitted
C13_Witness ==
  /\ Returned
  /\ Len(linesByColor) = 2
  /\ Len(result.lines) = 1
  /\ result.lines[1].color = linesByColor[2].color
  /\ Cardinality(stationTypeKeys(linesByColor[1].edges, nodeMapOf(nodes))) >= 2

\* the payload an edge carries for its own curve type
payloadOf(e) ==
  IF e.type = "perpendicular" THEN e.perpendicular
  ELSE IF e.type = "diagonal" THEN e.diagonal
  ELSE IF e.type = "simple" THEN e.simple
  ELSE <<>>

isFallbackEdge(e) ==
  e.type \notin {"perpendicular", "diagonal", "simple"} \/ Len(payloadOf(e)) = 0

\* the group is a path without repeated edges whose two ends are named station
\* nodes and whose inner nodes are bend nodes or named station nodes
isBendPath(es, nodeMap) ==
  LET V == endpointsOfGroup(es)
      named(k) == isStationNode(nodeMap[k]) /\ getStationName(nodeMap[k]) \notin {NULL, ""}
  IN  /\ V \subseteq DOMAIN nodeMap
      /\ \A i \in 1..Len(es) : es[i].source # es[i].target
      /\ Len(es) = Cardinality(V) - 1
      /\ Cardinality({{es[i].source, es[i].target} : i \in 1..Len(es)}) = Len(es)
      /\ \A k \in V : Cardinality(neighbourSet(es, k)) <= 2
      /\ reachableFrom({es[1].source}, es) = V
      /\ \A k \in V : named(k) \/ (~isStationNode(nodeMap[k])
                                     /\ Cardinality(neighbourSet(es, k)) = 2)

edgeJoining(es, a, b) ==
  es[CHOOSE i \in 1..Len(es) : {es[i].source, es[i].target} = {a, b}]

\* the segments expected of the edges between positions k and toK of the walk w
RECURSIVE expectedSegments(_, _, _, _, _, _)
expectedSegments(es, w, nodeMap, coordConfig, k, toK) ==
  IF k >= toK THEN <<>>
  ELSE LET a == nodeMap[w[k]]
           b == nodeMap[w[k + 1]]
           e == edgeJoining(es, w[k], w[k + 1])
           world(n) == rmpToGameCoord(n.x, n.y, coordConfig)
           here == IF isFallbackEdge(e)
                   THEN << [type |-> "line", points |-> <<world(a), world(b)>>] >>
                   ELSE calculateEdgePath(a, b, e, coordConfig).segments
       IN  here \o expectedSegments(es, w, nodeMap, coordConfig, k + 1, toK)

\* the i-th smallest element of a set of numbers
nth(P, i) == CHOOSE k \in P : Cardinality({j \in P : j < k}) = i - 1

hasPosition(node) == node.x # NaN /\ node.y # NaN

\* C15: a node without a position gives no station record, neither in a line
\* nor in the global station list.
C15_NoPositionNoStation ==
  Returned =>
    \A i \in 1..Len(nodes) :
      ~hasPosition(nodes[i]) =>
        \A s \in stationRecords(result) :
          ~(/\ s.name = getStationName(nodes[i])
            /\ s.coord = rmpToGameCoord(nodes[i].x, nodes[i].y, coordConfigOf(worldId)))

\* C16: a call with a world id that is not in the config table returns what the
\* default config (scale 1, offset 0.05, multiplier 10) gives.
C16_UnknownWorldIsDefault ==
  (Returned /\ worldId \notin DOMAIN WORLD_COORD_CONFIGS) =>
    result = parseWithConfig(nodes, edges, DEFAULT_COORD_CONFIG)

\* C17: the length reported by the straight and by the simple builder is the
\* distance between the two world-space points of the segment they emit.
C17_LengthInWorldSpace ==
  (pathCall.done /\ pathCall.builder \in {"straight", "simple"}) =>
    /\ Len(pathCall.path.segments) = 1
    /\ pathCall.path.length =
         worldDistance(pathCall.path.segments[1].points[1],
                       pathCall.path.segments[1].points[2])

\* the path of the edge at position k of a traversal, between the nodes the
\* edge joins, arriving at the node ordered after it
ownEdgePath(tr, k, nodeMap, coordConfig) ==
  LET e == tr.orderedEdges[k]
      toKey == tr.orderedNodes[k + 1]
      fromKey == IF e.source = toKey THEN e.target ELSE e.source
  IN  calculateEdgePath(nodeMap[fromKey], nodeMap[toKey], e, coordConfig)

RECURSIVE concatOwnPaths(_, _, _, _, _)
concatOwnPaths(tr, k, toK, nodeMap, coordConfig) ==
  IF k >= toK THEN [segments |-> <<>>, length |-> 0]
  ELSE LET here == ownEdgePath(tr, k, nodeMap, coordConfig)
           rest == concatOwnPaths(tr, k + 1, toK, nodeMap, coordConfig)
       IN  [segments |-> here.segments \o rest.segments,
            length |-> Add(here.length, rest.length)]

\* C18: in a group whose station nodes are all named, the edge path between
\* two consecutive stations of the line that have non-station nodes between
\* them is the concatenation, in traversal order, of the paths of the edges
\* ordered between them, each between the two nodes that edge joins, and its
\* length is the sum of their lengths.
C18_CombinedPathIsConcatenation ==
  Returned =>
    \A g \in 1..Len(linesByColor) :
      LET es == linesByColor[g].edges
          nodeMap == nodeMapOf(nodes)
          cfg == coordConfigOf(worldId)
          tr == getOrderedStationsWithEdges(es)
          P == {k \in 1..Len(tr.orderedNodes) : isStationNode(nodeMap[tr.orderedNodes[k]])}
          ls == {l \in 1..Len(result.lines) : result.lines[l].color = linesByColor[g].color}
      IN  (/\ endpointsOfGroup(es) \subseteq DOMAIN nodeMap
           /\ \A k \in P : getStationName(nodeMap[tr.orderedNodes[k]]) \notin {NULL, ""}
           /\ ls # {}) =>
            LET L == result.lines[CHOOSE l \in ls : TRUE]
            IN  /\ Len(L.edgePaths) = Cardinality(P) - 1
                /\ \A i \in 1..(Cardinality(P) - 1) :
                     LET comb == concatOwnPaths(tr, nth(P, i), nth(P, i + 1), nodeMap, cfg)
                     IN  (nth(P, i + 1) > nth(P, i) + 1 /\ Len(comb.segments) > 0) =>
                           L.edgePaths[i] = comb

\* C19: the global station list has one entry per name, and a name that occurs
\* in two lines of different colors has an entry whose line set holds the names
\* of both lines and whose isTransfer is true.
C19_SharedNameMerged ==
  Returned =>
    /\ \A i \in 1..Len(result.stations) : \A j \in 1..Len(result.stations) :
         result.stations[i].name = result.stations[j].name => i = j
    /\ \A l1 \in 1..Len(result.lines) : \A l2 \in 1..Len(result.lines) :
         result.lines[l1].color # result.lines[l2].color =>
           \A s1 \in Range(result.lines[l1].stations) :
             \A s2 \in Range(result.lines[l2].stations) :
               s1.name = s2.name =>
                 \E i \in 1..Len(result.stations) :
                   /\ result.stations[i].name = s1.name
                   /\ {result.lines[l1].line, result.lines[l2].line}
                        \subseteq Range(result.stations[i].lines)
                   /\ result.stations[i].isTransfer

finitePoint(q) == Number_isFinite(q.x) /\ Number_isFinite(q.z)

\* the squared distance of two points
squaredDistance(p, q) == plus(times(minus(p.x, q.x), minus(p.x, q.x)),
                              times(minus(p.z, q.z), minus(p.z, q.z)))

\* the point a + s * (b - a)
pointAt(a, b, s) ==
  [x |-> plus(a.x, times(minus(b.x, a.x), s)), z |-> plus(a.z, times(minus(b.z, a.z), s))]

\* the segment a-b is degenerate for the call: its squared length is not
\* finite or is at most 1e-12
degenerateSegment(a, b, fine) ==
  \/ ~finitePoint(a)
  \/ ~finitePoint(b)
  \/ (fine /\ lessEq(squaredDistance(a, b), Whole(100)))
  \/ (~fine /\ a = b)

\* p lies on the segment a-b
onSegment(p, a, b) ==
  LET cross == minus(times(minus(p.x, a.x), minus(b.z, a.z)),
                     times(minus(p.z, a.z), minus(b.x, a.x)))
      dot   == plus(times(minus(p.x, a.x), minus(b.x, a.x)),
                    times(minus(p.z, a.z), minus(b.z, a.z)))
  IN  /\ cross = Whole(0)
      /\ lessEq(Whole(0), dot)
      /\ lessEq(dot, squaredDistance(a, b))

\* C20: for a finite p, closestPointOnSegment(p, a, b) on a segment that is not
\* degenerate returns t in [0,1] and point = a + t*(b-a), no point of the
\* segment (sampled at every 24th of it) is closer to p than the returned
\* distance, and the distance is 0 for p on the segment; on a segment whose
\* squared length is <= 1e-12 or not finite it returns a, t = 0 and the
\* distance from p to a.
C20_ClosestPointOnSegment ==
  (snapCall.done /\ finitePoint(snapCall.p)) =>
    LET p == snapCall.p
        a == snapCall.a
        b == snapCall.b
        out == snapCall.out
    IN  IF degenerateSegment(a, b, snapCall.fine)
        THEN /\ out.point = a
             /\ out.t = Whole(0)
             /\ out.dist.squared = squaredDistance(p, a)
        ELSE /\ lessEq(Whole(0), out.t)
             /\ lessEq(out.t, Whole(1))
             /\ out.point = pointAt(a, b, out.t)
             /\ out.dist.squared = squaredDistance(p, out.point)
             /\ \A k \in 0..24 :
                  lessEq(out.dist.squared, squaredDistance(p, pointAt(a, b, Frac(k, 24))))
             /\ onSegment(p, a, b) => out.dist.squared = Whole(0)

\* a call whose projection falls beyond b was clamped to b, at a distance
C20_Witness ==
  /\ snapCall.done
  /\ finitePoint(snapCall.p)
  /\ ~degenerateSegment(snapCall.a, snapCall.b, snapCall.fine)
  /\ snapCall.out.t = Whole(1)
  /\ snapCall.out.point = snapCall.b
  /\ less(Whole(0), snapCall.out.dist.squared)
  /\ less(squaredDistance(snapCall.a, snapCall.b),
          plus(times(minus(snapCall.p.x, snapCall.a.x), minus(snapCall.b.x, snapCall.a.x)),
               times(minus(snapCall.p.z, snapCall.a.z), minus(snapCall.b.z, snapCall.a.z))))

\* the segments scanned: <<r, i>> for every ring r of at least 2 points and
\* every i below its number of segments
segmentsOf(geom) ==
  {s \in (0..(Len(geom.rings) - 1)) \X (0..9) :
     /\ Len(geom.rings[s[1] + 1]) >= 2
     /\ s[2] < (IF geom.closed[s[1] + 1] THEN Len(geom.rings[s[1] + 1])
                ELSE Len(geom.rings[s[1] + 1]) - 1)}

projectionOn(p, geom, s) ==
  closestPointOnSegment(p, geom.rings[s[1] + 1][s[2] + 1],
                        geom.rings[s[1] + 1][((s[2] + 1) % Len(geom.rings[s[1] + 1])) + 1],
                        FALSE)

scannedBefore(s1, s2) == s1[1] < s2[1] \/ (s1[1] = s2[1] /\ s1[2] < s2[2])

\* C21: for a finite p, closestPointOnRings returns the projection of minimum
\* distance over the segments of all rings of at least 2 points (n-1 segments
\* of an open ring, n of a closed one, the last from the last point to the
\* first); of the segments at that distance it is the first scanned; with no
\* such ring the point is null and the distance infinite.  Both tools.
C21_ClosestPointOnRings ==
  (ringCall.done /\ finitePoint(ringCall.p)) =>
    IF segmentsOf(ringCall.geom) = {}
    THEN /\ ringCall.best.point = null
         /\ ringCall.best.dist.squared = POSITIVE_INFINITY
         /\ ringCall.assistBest.point = null
         /\ ringCall.assistBest.dist.squared = POSITIVE_INFINITY
    ELSE \E s \in segmentsOf(ringCall.geom) :
           /\ ringCall.best.ringIndex = s[1]
           /\ ringCall.best.segIndex = s[2]
           /\ ringCall.best.point = projectionOn(ringCall.p, ringCall.geom, s).point
           /\ ringCall.best.dist = projectionOn(ringCall.p, ringCall.geom, s).dist
           /\ ringCall.best.t = projectionOn(ringCall.p, ringCall.geom, s).t
           /\ ringCall.assistBest = [point |-> ringCall.best.point,
                                     dist |-> ringCall.best.dist]
           /\ \A s2 \in segmentsOf(ringCall.geom) :
                /\ lessEq(ringCall.best.dist.squared,
                          projectionOn(ringCall.p, ringCall.geom, s2).dist.squared)
                /\ projectionOn(ringCall.p, ringCall.geom, s2).dist = ringCall.best.dist
                     => ~scannedBefore(s2, s)

\* a call on a closed ring whose nearest segment, alone at that distance, is
\* the one from the last point to the first
C21_Witness ==
  /\ ringCall.done
  /\ finitePoint(ringCall.p)
  /\ ringCall.best.point # null
  /\ ringCall.geom.closed[ringCall.best.ringIndex + 1]
  /\ ringCall.best.segIndex = Len(ringCall.geom.rings[ringCall.best.ringIndex + 1]) - 1
  /\ less(Whole(0), ringCall.best.dist.squared)
  /\ \A s2 \in segmentsOf(ringCall.geom) :
       s2[2] # ringCall.best.segIndex =>
         less(ringCall.best.dist.squared,
              projectionOn(ringCall.p, ringCall.geom, s2).dist.squared)

\* the projection on the nearest segment of geom, the first scanned at that
\* distance (geom has a segment)
nearestProjection(p, geom) ==
  projectionOn(p, geom,
    CHOOSE s \in segmentsOf(geom) :
      \A s2 \in segmentsOf(geom) :
        /\ lessEq(projectionOn(p, geom, s).dist.squared,
                  projectionOn(p, geom, s2).dist.squared)
        /\ projectionOn(p, geom, s2).dist = projectionOn(p, geom, s).dist
             => ~scannedBefore(s2, s))

\* a call of transformWorldPoint with the tool enabled on a feature that has a
\* segment, for a finite p
assistRingCall ==
  /\ toolCall.op = "transformWorldPoint"
  /\ finitePoint(toolCall.p)
  /\ assist.enabled
  /\ assist.target # null
  /\ assist.target.kind = "leafletFeature"
  /\ segmentsOf(assist.target.geom) # {}

\* a call of applySnap with snapping enabled on a target that has a segment,
\* for a finite p
controlRingCall ==
  /\ toolCall.op = "applySnap"
  /\ finitePoint(toolCall.p)
  /\ control.snapEnabled
  /\ control.snapTarget # null
  /\ segmentsOf(control.snapTarget.geom) # {}

\* C22: with an active ring target, transformWorldPoint (against the tool's
\* threshold) and applySnap (against SNAP_MAX_DIST) return the projection on
\* the nearest segment when its distance d is <= the threshold, d equal to
\* the threshold included, and return no projected point when d is greater.
C22_RingSnapAtThreshold ==
  /\ assistRingCall =>
       IF lessEq(nearestProjection(toolCall.p, assist.target.geom).dist.squared,
                 times(assist.threshold, assist.threshold))
       THEN /\ toolCall.out.snapped
            /\ toolCall.out.point = nearestProjection(toolCall.p, assist.target.geom).point
       ELSE /\ ~toolCall.out.snapped
            /\ toolCall.out.point = toolCall.p
  /\ controlRingCall =>
       IF lessEq(nearestProjection(toolCall.p, control.snapTarget.geom).dist.squared,
                 times(SNAP_MAX_DIST, SNAP_MAX_DIST))
       THEN /\ ~toolCall.out.blocked
            /\ toolCall.out.point = nearestProjection(toolCall.p, control.snapTarget.geom).point
       ELSE toolCall.out.point = null

\* a call of transformWorldPoint at exactly the threshold from the feature,
\* off the end of a segment, was snapped to the end
C22_Witness ==
  /\ assistRingCall
  /\ toolCall.out.snapped
  /\ toolCall.out.dist.squared = times(assist.threshold, assist.threshold)
  /\ toolCall.out.point # toolCall.p
  /\ toolCall.out.point.x # toolCall.p.x
  /\ toolCall.out.point.z # toolCall.p.z

\* C23: a miss is a value: on a miss transformWorldPoint returns the input
\* point, snapped = false, the measured distance and the label of the target
\* (ring target and fixed line alike), and applySnap returns blocked = true,
\* a null point and a reason; every call, on any point, returns a value
\* (applySnap gives a point that is not finite back unchanged, not blocked).
C23_MissIsAValue ==
  /\ (assistRingCall
        /\ less(times(assist.threshold, assist.threshold),
                nearestProjection(toolCall.p, assist.target.geom).dist.squared)) =>
       toolCall.out = [point |-> toolCall.p, snapped |-> FALSE,
                       dist |-> nearestProjection(toolCall.p, assist.target.geom).dist,
                       targetLabel |-> assist.target.label]
  /\ (controlRingCall
        /\ less(times(SNAP_MAX_DIST, SNAP_MAX_DIST),
                nearestProjection(toolCall.p, control.snapTarget.geom).dist.squared)) =>
       /\ toolCall.out.blocked
       /\ toolCall.out.point = null
       /\ "reason" \in DOMAIN toolCall.out
  /\ toolCall.op = "transformWorldPoint" =>
       DOMAIN toolCall.out = {"point", "snapped", "dist", "targetLabel"}
  /\ toolCall.op = "applySnap" =>
       /\ {"point", "blocked"} \subseteq DOMAIN toolCall.out
       /\ ~finitePoint(toolCall.p) =>
            toolCall.out.point = toolCall.p /\ ~toolCall.out.blocked

\* a call of applySnap farther than SNAP_MAX_DIST from the target was blocked
C23_Witness ==
  /\ controlRingCall
  /\ toolCall.out.blocked
  /\ toolCall.out.point = null
  /\ less(times(SNAP_MAX_DIST, SNAP_MAX_DIST),
          nearestProjection(toolCall.p, control.snapTarget.geom).dist.squared)

\* a call of transformWorldPoint with the tool enabled on a fixed line, for a
\* finite p
assistLineCall ==
  /\ toolCall.op = "transformWorldPoint"
  /\ finitePoint(toolCall.p)
  /\ assist.enabled
  /\ assist.target # null
  /\ assist.target.kind = "fixedLine"

\* p[A] - v for the fixed line of the tool
offLine(p) ==
  IF assist.target.axis = "x" THEN minus(p.x, assist.target.value)
  ELSE minus(p.z, assist.target.value)

\* C24: on a fixed line of axis A and value v with threshold T, the distance
\* is |p[A] - v|; when it is <= T the result is p with p[A] replaced by v and
\* the other coordinate as it was, snapped = true, dist that distance, and
\* the label of the line; otherwise the result is p, snapped = false.  For
\* axis x, v = 100, T = 20, p = (110, 50) the result is (100, 50), dist 10.
C24_AxisLineSnap ==
  assistLineCall =>
    IF /\ lessEq(offLine(toolCall.p), assist.threshold)
       /\ lessEq(minus(Whole(0), offLine(toolCall.p)), assist.threshold)
    THEN /\ toolCall.out.snapped
         /\ toolCall.out.point =
              IF assist.target.axis = "x"
              THEN [x |-> assist.target.value, z |-> toolCall.p.z]
              ELSE [x |-> toolCall.p.x, z |-> assist.target.value]
         /\ toolCall.out.dist.squared = times(offLine(toolCall.p), offLine(toolCall.p))
         /\ toolCall.out.targetLabel = assist.target.label
    ELSE /\ ~toolCall.out.snapped
         /\ toolCall.out.point = toolCall.p
         /\ toolCall.out.dist.squared = times(offLine(toolCall.p), offLine(toolCall.p))
         /\ toolCall.out.targetLabel = assist.target.label

\* the scenario: axis x, value 100, threshold 20, p = (110, 50)
C24_Witness ==
  /\ assistLineCall
  /\ assist.target.axis = "x"
  /\ assist.target.value = Whole(100)
  /\ assist.threshold = Whole(20)
  /\ toolCall.p = WorldPt(110, 50)
  /\ toolCall.out.point = WorldPt(100, 50)
  /\ toolCall.out.snapped
  /\ toolCall.out.dist.squared = Whole(100)

\* C26: there is one snap threshold: on the same target geometry, whatever
\* threshold has been applied, a point is accepted by applySnap (control-point
\* move, draw-time snapping) exactly when it is accepted by transformWorldPoint
\* (assist-line snapping).
C26_OneSharedThreshold ==
  (/\ assist.enabled
   /\ assist.target # null
   /\ assist.target.kind = "leafletFeature"
   /\ control.snapEnabled
   /\ control.snapTarget # null
   /\ control.snapTarget.geom = assist.target.geom
   /\ segmentsOf(assist.target.geom) # {}) =>
    \A p \in ClickPoints :
      finitePoint(p) =>
        (transformWorldPoint(assist, p).snapped <=> ~applySnap(control, p).blocked)

\* the tool is out of use: any point comes back as it is, with no distance and
\* no label
assistIdleAnswer ==
  (toolCall.op = "transformWorldPoint" /\ (~assist.enabled \/ assist.target = null)) =>
    toolCall.out = [point |-> toolCall.p, snapped |-> FALSE, dist |-> null,
                    targetLabel |-> null]

\* a step that disables the tool leaves it without target
disableClearsTarget == (assist.enabled /\ ~assist'.enabled) => assist'.target = null

\* a target appears only on an enabled tool with its panel open, by a fixed
\* line applied or a feature picked
targetIsChosen ==
  (assist.target = null /\ assist'.target # null) =>
    /\ assist.enabled
    /\ assist'.enabled
    /\ assist.panelOpen
    /\ \/ assist.mode = "fixedLine" /\ assist'.target.kind = "fixedLine"
       \/ assist.picking /\ assist'.target.kind = "leafletFeature"

\* C30: transformWorldPoint returns the input point, snapped = false, dist =
\* null and targetLabel = null whenever the tool is disabled or has no target;
\* a disabled tool has no target, disabling clears it, and a target comes
\* back only by choosing one on the enabled tool: after a disable and an
\* enable no point is snapped until then.
C30_DisabledOrNoTargetPassesThrough ==
  /\ [](assistIdleAnswer /\ (~assist.enabled => assist.target = null))
  /\ [][disableClearsTarget /\ targetIsChosen]_vars
  /\ []((toolCall.op = "transformWorldPoint" /\ toolCall.out.snapped)
          => (assist.enabled /\ assist.target # null))

\* a call on a tool that has been enabled (its panel was opened and a
\* threshold applied) and then disabled: the point comes back
C30_Witness ==
  /\ ~assist.enabled
  /\ assist.panelOpen
  /\ assist.threshold # defaultThreshold
  /\ assist.target = null
  /\ toolCall.op = "transformWorldPoint"
  /\ finitePoint(toolCall.p)
  /\ toolCall.out = [point |-> toolCall.p, snapped |-> FALSE, dist |-> null,
                     targetLabel |-> null]

\* the coordinates of a layer as they are, as one ring
layerGeom(coords, mode) == [rings |-> <<coords>>, closed |-> <<mode = "polygon">>]

\* the nearest segment of geom, the first scanned at that distance
nearestSegment(p, geom) ==
  CHOOSE s \in segmentsOf(geom) :
    \A s2 \in segmentsOf(geom) :
      /\ lessEq(projectionOn(p, geom, s).dist.squared,
                projectionOn(p, geom, s2).dist.squared)
      /\ projectionOn(p, geom, s2).dist = projectionOn(p, geom, s).dist
           => ~scannedBefore(s2, s)

\* a click on the map at a finite point, in add mode with a target layer
addClickStep ==
  /\ toolCall = NoToolCall
  /\ toolCall'.op = "onMapClick"
  /\ finitePoint(toolCall'.p)
  /\ control.addEnabled
  /\ control.addTargetLayerId # nullId

\* the pending coordinates after a click at p on a layer of coordinates
\* coords: the projection on the nearest segment put right after the start
\* of that segment when it is within SNAP_MAX_DIST, no change otherwise
afterAddClick(id, coords, geom, p) ==
  IF /\ segmentsOf(geom) # {}
     /\ lessEq(nearestProjection(p, geom).dist.squared, times(SNAP_MAX_DIST, SNAP_MAX_DIST))
  THEN withPendingEdit(control.pendingEdits, id,
                       splice(coords, nearestSegment(p, geom)[2] + 1,
                              nearestProjection(p, geom).point))
  ELSE control.pendingEdits

\* C25: in add mode a click within the threshold of the nearest segment of
\* the target layer (its current coordinates; for a polygon the segment from
\* the last point to the first included) inserts the projected point right
\* after the start index of that segment, which for the polygon's closing
\* segment is the end of the list; a click farther away leaves the pending
\* coordinates as they were.
C25_AddModeInsertion ==
  [][addClickStep =>
       control'.pendingEdits =
         afterAddClick(control.addTargetLayerId,
                       getEffectiveCoords(control, layerOf(control.addTargetLayerId)),
                       layerGeom(getEffectiveCoords(control, layerOf(control.addTargetLayerId)),
                                 layerOf(control.addTargetLayerId).mode),
                       toolCall'.p)]_vars

\* the ends of a perpendicular call after offsetFrom and offsetTo are applied
offsetEnds(call) ==
  [p1 |-> offsetPoint(call.from, perpDirOf(call.from, call.to), call.config.offsetFrom),
   p2 |-> offsetPoint(call.to, perpDirOf(call.from, call.to), call.config.offsetTo)]

\* |dx| >= |dy| of the displacement from `from` to `to`
horizontalDominant(call) ==
  Ge(AbsN(Sub(call.to.x, call.from.x)), AbsN(Sub(call.to.y, call.from.y)))

\* the elbow the two L-orientations have
horizontalFirstElbow(ends) == [x |-> ends.p2.x, y |-> ends.p1.y]
verticalFirstElbow(ends)   == [x |-> ends.p1.x, y |-> ends.p2.y]

elbowOf(call) ==
  IF horizontalDominant(call) /\ call.config.startFrom = "from"
    THEN horizontalFirstElbow(offsetEnds(call))
  ELSE IF ~horizontalDominant(call) /\ call.config.startFrom = "from"
    THEN verticalFirstElbow(offsetEnds(call))
  ELSE IF horizontalDominant(call)
    THEN verticalFirstElbow(offsetEnds(call))
  ELSE horizontalFirstElbow(offsetEnds(call))

\* a line segment runs along one axis
axisAligned(seg) ==
  \/ seg.points[1].x = seg.points[2].x
  \/ seg.points[1].z = seg.points[2].z

\* the segment touches the elbow: a line ends there, a curve bends around it
atElbow(seg, elbow) ==
  IF seg.type = "quadratic" THEN seg.points[2] = elbow
  ELSE seg.points[1] = elbow \/ seg.points[2] = elbow

\* the ends differ in both coordinates, so the path is a real L
realL(ends) == ends.p1.x # ends.p2.x /\ ends.p1.y # ends.p2.y

perpendicularShape(call, segments, elbow) ==
  /\ \A i \in 1..Len(segments) : segments[i].type = "line" => axisAligned(segments[i])
  /\ segments # <<>> =>
       /\ segments[1].points[1] = toGameCoord(offsetEnds(call).p1, call.coordConfig)
       /\ segments[Len(segments)].points[Len(segments[Len(segments)].points)] =
            toGameCoord(offsetEnds(call).p2, call.coordConfig)
       /\ \E i \in 1..Len(segments) : atElbow(segments[i], elbow)
  /\ realL(offsetEnds(call)) =>
       /\ Len(segments) \in {2, 3}
       /\ atElbow(segments[2], elbow)
       /\ segments[1].type = "line"
       /\ segments[Len(segments)].type = "line"

\* C27: a call of the perpendicular builder returns an L whose elbow is at
\* (p2.x, p1.y) when |dx| >= |dy| and startFrom is 'from', at (p1.x, p2.y) when
\* exactly one of the two is flipped, and at (p2.x, p1.y) again when both are;
\* the path starts at p1, ends at p2, and every straight piece of it runs along
\* one axis.
C27_PerpendicularElbow ==
  (pathCall.done /\ pathCall.builder = "perpendicular") =>
    perpendicularShape(pathCall, pathCall.path.segments,
                       toGameCoord(elbowOf(pathCall), pathCall.coordConfig))

\* a horizontal-dominant call with startFrom 'from', a shifted start and a
\* rounded corner returned line, curve, line
C27_Witness ==
  /\ pathCall.done
  /\ pathCall.builder = "perpendicular"
  /\ horizontalDominant(pathCall)
  /\ pathCall.config.startFrom = "from"
  /\ pathCall.config.offsetFrom # 0
  /\ realL(offsetEnds(pathCall))
  /\ Len(pathCall.path.segments) = 3
  /\ pathCall.path.segments[2].type = "quadratic"
  /\ pathCall.path.segments[2].points[2] =
       toGameCoord(horizontalFirstElbow(offsetEnds(pathCall)), pathCall.coordConfig)

\* half the shorter of the two legs that meet at the corner
halfShorterLeg(call) ==
  Mul(MinN(distance(call.corner, call.before), distance(call.corner, call.after)),
      Unit \div 2)

\* the reach the corner's curve is to have
reachOf(call) == MinN(call.factor, halfShorterLeg(call))

\* q lies on the leg from the corner to `end`, at `reach` from the corner and
\* not past the leg's midpoint
onLegAt(corner, end, q, reach) ==
  /\ distance(corner, q) = reach
  /\ distance(q, end) = Sub(distance(corner, end), reach)
  /\ 2 * reach <= distance(corner, end)

\* C28: applyRoundCorner with a non-negative factor returns curve ends that
\* are both at min(factor, half the shorter adjoining leg) from the corner,
\* each on its own leg and not past the midpoint of the shorter leg; the
\* control point is the corner.
C28_RoundCornerReach ==
  (pathCall.done /\ pathCall.builder = "applyRoundCorner") =>
    /\ onLegAt(pathCall.corner, pathCall.before, pathCall.round.cornerStart,
               reachOf(pathCall))
    /\ onLegAt(pathCall.corner, pathCall.after, pathCall.round.cornerEnd,
               reachOf(pathCall))
    /\ 2 * reachOf(pathCall) <= distance(pathCall.corner, pathCall.before)
    /\ 2 * reachOf(pathCall) <= distance(pathCall.corner, pathCall.after)
    /\ pathCall.round.control = pathCall.corner

\* a corner with legs of 3 and 4 and factor 2: the curve ends are 1.5 from it
C28_Witness ==
  /\ pathCall.done
  /\ pathCall.builder = "applyRoundCorner"
  /\ distance(pathCall.corner, pathCall.before) = 3 * Unit
  /\ distance(pathCall.corner, pathCall.after) = 4 * Unit
  /\ pathCall.factor = 2 * Unit
  /\ distance(pathCall.corner, pathCall.round.cornerStart) = (3 * Unit) \div 2
  /\ distance(pathCall.corner, pathCall.round.cornerEnd) = (3 * Unit) \div 2

\* a sequence in reverse order
reversed(seq) == [i \in 1..Len(seq) |-> seq[Len(seq) + 1 - i]]

\* the segments of a path run backwards: last piece first, each piece's
\* points in reverse order
reversedSegments(segments) ==
  [i \in 1..Len(segments) |->
     [type |-> segments[Len(segments) + 1 - i].type,
      points |-> reversed(segments[Len(segments) + 1 - i].points)]]

isReverseOf(back, forth) ==
  /\ back.segments = reversedSegments(forth.segments)
  /\ back.length = forth.length

\* C29: once a perpendicular, diagonal or simple edge has been crossed in
\* both directions, the path of the crossing from target to source is the
\* path of the crossing from source to target run backwards, with the same
\* length, whatever the edge's offsets.
C29_ReverseCrossingIsReversePath ==
  (pathCall.done /\ pathCall.builder = "calculateEdgePath") =>
    isReverseOf(pathCall.paths[2], pathCall.paths[1])

\* C31: in ControlPointTools, whatever buttons, markers and map points have
\* been clicked, edit mode and add mode are not both on, a vertex is selected
\* only while edit mode is on, and an add-target layer is set only while add
\* mode is on.
C31_ModesExclusive ==
  /\ ~(control.editEnabled /\ control.addEnabled)
  /\ control.selectedVertex # null => control.editEnabled
  /\ control.addTargetLayerId # nullId => control.addEnabled

\* edit mode with a selected vertex, after add mode put a point on the hidden
\* layer (which has no markers, so only add mode can change it)
C31_Witness ==
  /\ control.editEnabled
  /\ control.selectedVertex # null
  /\ 3 \in DOMAIN control.pendingEdits
  /\ control.addTargetLayerId = nullId
  /\ ~control.addEnabled

\* a click on the map in edit mode with a selected vertex
editClickStep ==
  /\ toolCall = NoToolCall
  /\ toolCall'.op = "onMapClick"
  /\ control.editEnabled
  /\ control.selectedVertex # null

\* what snapping makes of a click at p: the point itself without an active
\* target, the projection on the target within SNAP_MAX_DIST, a block beyond
snappedClick(c, p) ==
  IF c.snapEnabled /\ c.snapTarget # null /\ finitePoint(p)
     /\ segmentsOf(c.snapTarget.geom) # {}
  THEN IF lessEq(nearestProjection(p, c.snapTarget.geom).dist.squared,
                 times(SNAP_MAX_DIST, SNAP_MAX_DIST))
       THEN [blocked |-> FALSE, point |-> nearestProjection(p, c.snapTarget.geom).point]
       ELSE [blocked |-> TRUE]
  ELSE [blocked |-> FALSE, point |-> p]

\* `after` is `before` with exactly the vertex idx (from 0) of layer id, whose
\* coordinates were base, replaced by point
oneVertexReplaced(before, after, id, base, idx, point) ==
  /\ DOMAIN after = DOMAIN before \cup {id}
  /\ \A k \in DOMAIN before \ {id} : after[k] = before[k]
  /\ Len(after[id]) = Len(base)
  /\ idx + 1 \in 1..Len(base)
  /\ \A i \in 1..Len(base) : after[id][i] = IF i = idx + 1 THEN point ELSE base[i]

editClickEffect(snapped) ==
  /\ control' = [control EXCEPT !.pendingEdits = control'.pendingEdits]
  /\ IF snapped.blocked
     THEN control'.pendingEdits = control.pendingEdits
     ELSE oneVertexReplaced(control.pendingEdits, control'.pendingEdits,
                            control.selectedVertex.layerId,
                            getEffectiveCoords(control, layerOf(control.selectedVertex.layerId)),
                            control.selectedVertex.vertexIndex, snapped.point)

\* C32: in edit mode with a selected vertex a map click replaces exactly the
\* selected vertex of that layer's effective coordinates by the click point,
\* snapped when snapping has a target: the list keeps its length, every other
\* vertex and every other layer's pending edit stay as they were, and so does
\* the rest of the tool's state; a click that snapping blocks leaves
\* pendingEdits unchanged.
C32_EditMovesOneVertex ==
  [][editClickStep => editClickEffect(snappedClick(control, toolCall'.p))]_vars

\* a click at (10,5) has put the selected vertex on the snap line at (10,0),
\* in a list that kept its length, while the hidden layer has a pending edit
C32_Witness ==
  /\ toolCall.op = "onMapClick"
  /\ toolCall.p = WorldPt(10, 5)
  /\ control.editEnabled
  /\ control.selectedVertex # null
  /\ control.snapEnabled
  /\ control.snapTarget # null
  /\ control.selectedVertex.layerId \in DOMAIN control.pendingEdits
  /\ 3 \in DOMAIN control.pendingEdits
  /\ control.pendingEdits[control.selectedVertex.layerId]
       [control.selectedVertex.vertexIndex + 1] = WorldPt(10, 0)
  /\ Len(control.pendingEdits[control.selectedVertex.layerId]) =
       Len(layerOf(control.selectedVertex.layerId).coords)

\* a click on the save button
commitStep ==
  /\ toolCall = NoToolCall
  /\ toolCall'.op = "commitEdits"

\* the patches name each layer of pending once, with its pending coordinates
onePatchPerLayer(patches, pending) ==
  /\ Len(patches) = Cardinality(DOMAIN pending)
  /\ \A id \in DOMAIN pending :
       \E i \in 1..Len(patches) :
         patches[i] = [layerId |-> id, newCoords |-> pending[id]]

\* C33: commitEdits with at least one pending edit calls onCommit exactly
\* once, with exactly one patch for each layer that has a pending edit, the
\* patch carrying the layer's pending coordinates, and leaves pendingEdits
\* empty and no vertex selected; with no pending edit it does not call
\* onCommit and leaves the tool's state as it was.
C33_CommitOnce ==
  [][commitStep =>
       IF DOMAIN control.pendingEdits # {}
       THEN /\ Len(toolCall'.onCommit) = 1
            /\ onePatchPerLayer(toolCall'.onCommit[1], control.pendingEdits)
            /\ control'.pendingEdits = <<>>
            /\ control'.selectedVertex = null
       ELSE /\ toolCall'.onCommit = <<>>
            /\ control' = control]_vars

\* a save of two layers' pending edits made in edit mode with a vertex
\* selected: one call with two patches, nothing pending, nothing selected
C33_Witness ==
  /\ toolCall.op = "commitEdits"
  /\ Len(toolCall.onCommit) = 1
  /\ Len(toolCall.onCommit[1]) = 2
  /\ toolCall.onCommit[1][1].layerId # toolCall.onCommit[1][2].layerId
  /\ control.editEnabled
  /\ control.pendingEdits = <<>>
  /\ control.selectedVertex = null

\* a click on the map in add mode that changed the target layer's list
acceptedInsertion ==
  /\ toolCall = NoToolCall
  /\ toolCall'.op = "onMapClick"
  /\ control.addEnabled
  /\ control.addTargetLayerId # nullId
  /\ control'.pendingEdits # control.pendingEdits

\* `after` is `before` with one point put in at some place
onePointMore(before, after) ==
  /\ Len(after) = Len(before) + 1
  /\ \E k \in 1..Len(after) :
       before = SubSeq(after, 1, k - 1) \o SubSeq(after, k + 1, Len(after))

\* C37: in add mode an accepted insertion gives the target layer its previous
\* effective coordinate list with exactly one new point put in: every
\* previous point is kept, in the same order, and the list is longer by one,
\* also for a list whose first and last points coincide.
C37_InsertionKeepsAllPoints ==
  [][acceptedInsertion =>
       /\ control.addTargetLayerId \in DOMAIN control'.pendingEdits
       /\ onePointMore(getEffectiveCoords(control, layerOf(control.addTargetLayerId)),
                       control'.pendingEdits[control.addTargetLayerId])]_vars

\* the display names of the returned lines
returnedLineNames == {result.lines[l].line : l \in 1..Len(result.lines)}

\* C39: every line name in the line set of a station that parseRMPData
\* returns, in the global list or in a line's own list, is the display name
\* of one of the returned lines; a color group that is dropped leaves no
\* station and no line name in the output.
C39_StationLinesAreReturnedLines ==
  Returned =>
    /\ \A i \in 1..Len(result.stations) :
         Range(result.stations[i].lines) \subseteq returnedLineNames
    /\ \A l \in 1..Len(result.lines) :
         \A s \in Range(result.lines[l].stations) :
           Range(s.lines) \subseteq returnedLineNames

\* the hosts of the three mirrors, in the claimed order
mirrorHosts == << "raw.githubusercontent.com", "raw.kkgithub.com", "fastly.jsdelivr.net" >>

\* the first request of the call that meets a 2xx answer with a JSON body, or 0
firstGoodAnswer(call) ==
  IF \E k \in 1..3 : call.answers[k] = "json"
    THEN CHOOSE k \in 1..3 :
           call.answers[k] = "json" /\ \A j \in 1..(k - 1) : call.answers[j] # "json"
    ELSE 0

finalEvents(call, last) ==
  IF call.hasProgress THEN <<"loading", last>> ELSE <<>>

\* C35: fetchWithMirror tries the mirrors in the order raw.githubusercontent.com,
\* raw.kkgithub.com, fastly.jsdelivr.net (for a GitHub raw URL these are the
\* hosts of its requests); when it returns, the data is that of the first
\* mirror answering OK with parseable JSON and no later mirror was contacted;
\* it throws only after all three failed; the progress callback gets 'loading'
\* first and then exactly one final event, 'success' iff the call returns and
\* 'error' iff it throws.
C35_MirrorsInOrder ==
  mirrorFetch.pc \in {"loop", "returned", "thrown"} =>
    /\ Len(mirrorFetch.tried) <= 3
    /\ Len(mirrorFetch.contacted) = Len(mirrorFetch.tried)
    /\ \A k \in 1..Len(mirrorFetch.tried) :
         /\ mirrorFetch.tried[k] = GITHUB_RAW_MIRRORS[k]
         /\ mirrorFetch.url = GitHubRawUrl =>
              mirrorFetch.contacted[k].host = mirrorHosts[k]
    /\ mirrorFetch.pc = "loop" =>
         /\ mirrorFetch.events = (IF mirrorFetch.hasProgress THEN <<"loading">> ELSE <<>>)
         /\ \A k \in 1..Len(mirrorFetch.tried) : mirrorFetch.answers[k] # "json"
    /\ mirrorFetch.pc = "returned" =>
         /\ firstGoodAnswer(mirrorFetch) # 0
         /\ Len(mirrorFetch.tried) = firstGoodAnswer(mirrorFetch)
         /\ mirrorFetch.data = [from |-> mirrorFetch.contacted[firstGoodAnswer(mirrorFetch)]]
         /\ mirrorFetch.events = finalEvents(mirrorFetch, "success")
    /\ mirrorFetch.pc = "thrown" =>
         /\ firstGoodAnswer(mirrorFetch) = 0
         /\ Len(mirrorFetch.tried) = 3
         /\ mirrorFetch.events = finalEvents(mirrorFetch, "error")

\* a call with a progress callback returned the data of the second mirror
\* after the first one answered without success
C35_Witness ==
  /\ mirrorFetch.pc = "returned"
  /\ mirrorFetch.url = GitHubRawUrl
  /\ mirrorFetch.hasProgress
  /\ mirrorFetch.answers[1] = "notOk"
  /\ mirrorFetch.answers[3] = "json"
  /\ Len(mirrorFetch.tried) = 2
  /\ mirrorFetch.data.from.host = "raw.kkgithub.com"

allLoadsSettled ==
  \A k \in 1..Len(mapContainer.loads) : mapContainer.loads[k].pc = "done"

heldFor(data, w) ==
  data # <<>> /\ \A i \in 1..Len(data) : data[i].world = w

\* C38: in MapContainer, once the overlapping runs of loadSearchData have all
\* completed after a change of world, the lines, stations, landmarks and
\* players held are those loaded for the most recently selected world,
\* whatever the order in which the runs completed.
C38_LastWorldWins ==
  (mapContainer.mounted /\ allLoadsSettled) =>
    /\ heldFor(mapContainer.lines, mapContainer.currentWorld)
    /\ heldFor(mapContainer.stations, mapContainer.currentWorld)
    /\ heldFor(mapContainer.landmarks, mapContainer.currentWorld)
    /\ heldFor(mapContainer.players, mapContainer.currentWorld)

\* the group is in the fixed container
inFixedRoot(group) ==
  \E i \in 1..Len(measuring.fixedRoot) : measuring.fixedRoot[i] = group

\* C34: in MeasuringModule, whenever no layer is being edited the fixed
\* container holds exactly the leaflet groups of the visible layers, in the
\* order of the layer list, after any sequence of finish, edit, import,
\* toggle-visibility, move, delete, clear-all and panel-close operations;
\* while a layer is being edited its group is not in the fixed container.
C34_FixedRootFollowsLayers ==
  measuring.mounted =>
    /\ measuring.editingLayerId = nullId =>
         measuring.fixedRoot = groupsShown(measuring.layers, nullId)
    /\ measuring.editingLayerId # nullId =>
         \A i \in 1..Len(measuring.layers) :
           measuring.layers[i].id = measuring.editingLayerId =>
             ~inFixedRoot(measuring.layers[i].leafletGroup)

\* a step of handleRedo that appends a point
redoStep ==
  /\ measuring.mounted
  /\ Len(measuring.redoStack) > 0
  /\ measuring'.redoStack = SubSeq(measuring.redoStack, 1, Len(measuring.redoStack) - 1)
  /\ measuring'.tempPoints =
       Append(measuring.tempPoints, measuring.redoStack[Len(measuring.redoStack)])

\* C40: in MeasuringModule, whenever handleRedo appends a point the resulting
\* temporary point list equals the list as it was immediately before the undo
\* that removed that point, after any interleaving of map clicks, undo, redo
\* and mode switches (undo on an empty list and redo on an empty stack leave
\* the state as it is).
C40_RedoRestoresList ==
  [][redoStep =>
       /\ Len(beforeUndo) = Len(measuring.redoStack)
       /\ measuring'.tempPoints = beforeUndo[Len(beforeUndo)]]_vars

====
